---- MODULE Spec2Model ----
(***************************************************************************)
(* State-machine model of the Railway MCP server's provisioning            *)
(* orchestration (DatabaseService.createDatabaseFromTemplate), variable     *)
(* synchronisation (VariableService.copyVariables) and request handling.    *)
(*                                                                         *)
(* Every remote call is two steps: the code issues the call (it joins      *)
(* `pending`) and suspends at its `await`; the platform answers (Respond)  *)
(* and the code resumes in the action that follows the await.              *)
(***************************************************************************)
EXTENDS Integers, Sequences, FiniteSets, TLC

VARIABLES
    pc,        \* where the running operation is suspended
    pending,   \* remote calls issued and not yet answered
    resp,      \* the answer the suspended code is resumed with
    trace,     \* remote calls issued, and pauses begun, so far, in order
    acked,     \* names of the calls answered successfully so far, in order
    result,    \* what the operation returned or threw
    remote,    \* the platform's state: services, variables, regions, proxies, volumes
    catalog,   \* the templates the platform's catalog holds
    req,       \* createDatabaseFromTemplate's arguments
    template,  \* the local `template`, once resolved
    service,   \* the local `service` (its id), once createService answered
    creq,      \* copyVariables' arguments
    sourceVars,\* copyVariables' local `sourceVars`
    varsToSet, \* copyVariables' local `varsToSet`
    before,    \* the platform's variables when the running copy started
    server,    \* the entry point that serves the requests
    inbound,   \* the headers of each inbound request
    defaultToken, \* process.env.DEFAULT_ACCESS_TOKEN
    rpc,       \* where the handling of each request stands
    session,   \* the FastMCP session of each request: its client's token
    railwayClient, \* the token the module-level railwayClient holds
    sent,      \* the remote calls made: for which request, with which token
    outcome,   \* how each request was answered
    race,      \* the locals of each of two concurrent copyVariables calls
    writes,    \* the concurrent copies in the order their bulk writes landed
    opreq,     \* the arguments of the running template or variable operation
    matches,   \* listTemplates' local `templates` once the search has replaced it
    buildLogs  \* getDeploymentLogs' local `buildLogs`, once fetched

coreVars == << pc, pending, resp, trace, acked, result, remote, catalog, req,
               template, service, creq, sourceVars, varsToSet, before >>

srvVars == << server, inbound, defaultToken, rpc, session, railwayClient,
              sent, outcome >>

raceVars == << race, writes >>

opVars == << opreq, matches, buildLogs >>

vars == << coreVars, srvVars, raceVars, opVars >>

-----------------------------------------------------------------------------
(* Bounds of the model *)

\* service slots a template declares at most
MaxSlots == 2
\* entries a slot's tcpProxies / volumeMounts map holds at most
MaxDecl == 2
\* variable names a scope can hold
MaxKeys == 2

\* how many times in a row the same entries are written
MaxApplications == 2

-----------------------------------------------------------------------------
(* Optional values: <<>> is undefined, <<x>> is x *)

Absent == <<>>

Some(x) == <<x>>

IsSome(o) == Len(o) > 0

\* JS truthiness of an optional string: undefined and '' are falsy
Truthy(o) == IsSome(o) /\ o[1] # ""

-----------------------------------------------------------------------------
(* Strings whose characters matter (a template's category) are sequences   *)
(* of one-character strings.                                               *)

Upper == << "A","B","C","D","E","F","G","H","I","J","K","L","M",
            "N","O","P","Q","R","S","T","U","V","W","X","Y","Z" >>

Lower == << "a","b","c","d","e","f","g","h","i","j","k","l","m",
            "n","o","p","q","r","s","t","u","v","w","x","y","z" >>

ToLowerChar(c) ==
    IF \E i \in 1..Len(Upper) : Upper[i] = c
    THEN Lower[CHOOSE i \in 1..Len(Upper) : Upper[i] = c]
    ELSE c

ToLowerCase(s) == [i \in 1..Len(s) |-> ToLowerChar(s[i])]

Includes(s, sub) ==
    \E i \in 0..(Len(s) - Len(sub)) : SubSeq(s, i + 1, i + Len(sub)) = sub

StorageWord == << "s","t","o","r","a","g","e" >>

DatabaseWord == << "d","a","t","a","b","a","s","e" >>

\* t.category?.toLowerCase().includes('storage') || ...includes('database')
IsDatabaseCategory(category) ==
    /\ IsSome(category)
    /\ LET lower == ToLowerCase(category[1])
       IN  \/ Includes(lower, StorageWord)
           \/ Includes(lower, DatabaseWord)

-----------------------------------------------------------------------------
(* The templates of the catalog *)

CatStorage == << "S","t","o","r","a","g","e" >>

CatDatabases == << "D","A","T","A","B","A","S","E","S" >>

CatQueues == << "Q","u","e","u","e","s" >>

Categories == { Absent, Some(CatStorage), Some(CatDatabases), Some(CatQueues) }

Images == { Absent, Some(""), Some("postgres:16") }

SlotNames == { Absent, Some("Postgres") }

\* name -> defaultValue descriptors, in declaration order
VariableDecls ==
    { Absent,
      Some(<< >>),
      Some(<< [name |-> "PGDATA", defaultValue |-> "/var/lib/pg"],
              [name |-> "PGPORT", defaultValue |-> "5433"] >>) }

\* a descriptor list: the first entry varies, the later ones are `filler`
DeclLists(firsts, filler) ==
    { Absent, Some(<< >>) } \cup
    { Some([i \in 1..n |-> IF i = 1 THEN f ELSE filler]) :
          f \in firsts, n \in 1..MaxDecl }

\* tcpProxies: each entry's optional port
TcpProxyDecls == DeclLists({ Absent, Some(3306) }, Some(9999))

\* volumeMounts: each entry's mountPath
VolumeDecls == DeclLists({ "", "/var/lib/pg" }, "/filler")

FillerSlot ==
    [ name |-> Some("Sidecar"), image |-> Some("sidecar:1"),
      tcpProxies |-> Absent, variables |-> Absent, volumeMounts |-> Absent ]

Slots ==
    [ name : SlotNames, image : Images, tcpProxies : TcpProxyDecls,
      variables : VariableDecls, volumeMounts : VolumeDecls ]

\* serializedConfig.services in Object.entries order
ServiceLists ==
    { << >> } \cup
    { [i \in 1..n |-> IF i = 1 THEN s ELSE FillerSlot] :
          s \in Slots, n \in 1..MaxSlots }

\* the template the request names
Templates ==
    [ id : {"tpl"}, name : {"PostgreSQL"}, category : Categories,
      services : ServiceLists ]

\* another database template of the catalog, listed first
Redis ==
    [ id |-> "redis", name |-> "Redis", category |-> Some(CatStorage),
      services |-> << [ name |-> Absent, image |-> Some("redis:7"),
                        tcpProxies |-> Absent, variables |-> Absent,
                        volumeMounts |-> Absent ] >> ]

Catalogs == { << Redis, t >> : t \in Templates }

Requests ==
    [ projectId : {"proj"}, id : {"tpl", "nope"}, region : {"us-west1"},
      environmentId : {"env1"}, name : { Absent, Some(""), Some("mydb") } ]

-----------------------------------------------------------------------------
(* Remote calls and their answers *)

NoArgs ==
    [ op |-> "none", projectId |-> "", environmentId |-> "", serviceId |-> "",
      name |-> "", image |-> "", inputs |-> << >>, region |-> "",
      applicationPort |-> 0, mountPath |-> "", templateId |-> "",
      teamId |-> Absent, config |-> << >>, workflowId |-> "",
      deploymentId |-> "", commitSha |-> Absent, limit |-> 0, ms |-> 0,
      domain |-> Absent, targetPort |-> Absent ]

NoResp == [ op |-> "none", status |-> "none", id |-> "", templates |-> << >>,
            variables |-> << >>, workflow |-> << >>, data |-> << >> ]

Answer(op, status) == [ NoResp EXCEPT !.op = op, !.status = status ]

NoResult == [ status |-> "none", error |-> << >>, value |-> "", count |-> 0 ]

\* An error is a chain of messages, the outermost first and the original
\* cause last; a message is the sequence of its parts (literal text and
\* interpolated values).
Thrown(chain) == [ NoResult EXCEPT !.status = "error", !.error = chain ]

\* the error a rejected remote call raises: the platform's own text
RemoteError(op) == << << "remote failure: ", op >> >>

\* new UserError(message): no cause attached
UserError(message) == [ user |-> TRUE, chain |-> << message >> ]

\* an error that is no UserError (raised by the API client)
ClientError(op) == [ user |-> FALSE, chain |-> RemoteError(op) ]

\* new UserError(text, { error }): the caught error becomes the cause
Wrap(text, error) == [ user |-> TRUE, chain |-> << << text >> >> \o error.chain ]

EmptyRemote ==
    [ services |-> {}, variables |-> {}, regions |-> {}, proxies |-> {},
      volumes |-> {}, workflows |-> {}, restarts |-> {}, deployments |-> {},
      domains |-> {} ]

-----------------------------------------------------------------------------
(* The platform (the API client's repositories) *)

NewServiceId == "svc-1"

NewWorkflowId == "wf-1"

\* how the platform may answer each call
Outcomes(call) ==
    CASE call.op \in { "listTemplates", "createService", "getVariables",
                       "serviceDelete" } ->
             { [status |-> "ok", applied |-> 0], [status |-> "throw", applied |-> 0] }
      [] call.op = "upsertVariables" ->
             { [status |-> "ok", applied |-> Len(call.inputs)] } \cup
             { [status |-> "throw", applied |-> k] : k \in 0..(Len(call.inputs) - 1) } \cup
             { [status |-> "throw", applied |-> 0] }
      [] OTHER ->
             { [status |-> "ok", applied |-> 0], [status |-> "null", applied |-> 0],
               [status |-> "throw", applied |-> 0] }

\* one variable written: create-or-update of (scope, name)
UpsertOne(variables, input) ==
    { v \in variables :
          ~ ( /\ v.projectId = input.projectId
              /\ v.environmentId = input.environmentId
              /\ v.serviceId = input.serviceId
              /\ v.name = input.name ) }
    \cup { input }

RECURSIVE UpsertMany(_, _, _)
\* the first n inputs written, in order
UpsertMany(variables, inputs, n) ==
    IF n = 0 THEN variables
    ELSE UpsertOne(UpsertMany(variables, inputs, n - 1), inputs[n])

\* the variables of one scope as a name -> value map
GetVariables(variables, projectId, environmentId, serviceId) ==
    LET scope == { v \in variables : /\ v.projectId = projectId
                                     /\ v.environmentId = environmentId
                                     /\ v.serviceId = serviceId }
    IN  [ n \in { v.name : v \in scope } |->
              (CHOOSE v \in scope : v.name = n).value ]

\* the status the platform reports for a workflow
WorkflowStatus(workflows, workflowId) ==
    IF \E w \in workflows : w.id = workflowId
    THEN Some(CHOOSE w \in workflows : w.id = workflowId)
    ELSE Absent

NewDeploymentId == "dep-new"

\* the domain the platform creates for a call: the requested name, or one
\* of its own when none is given
CreatedDomain(call) ==
    [ domain |-> IF Truthy(call.domain) THEN call.domain[1]
                 ELSE "generated.up.railway.app",
      serviceId |-> call.serviceId, environmentId |-> call.environmentId,
      targetPort |-> call.targetPort ]

\* the platform's answer to serviceDomainAvailable
Availability(r, domain) ==
    IF \E d \in r.domains : d.domain = domain
    THEN [ available |-> FALSE, message |-> "Domain is taken" ]
    ELSE [ available |-> TRUE, message |-> "" ]

\* what the platform answers a deployment call with
Payload(call) ==
    CASE call.op = "triggerDeployment" -> NewDeploymentId
      [] call.op = "getBuildLogs" ->
             LET lines == << [ message |-> "compiling" ], [ message |-> "built" ] >>
             IN  IF call.limit >= Len(lines) THEN lines
                 ELSE SubSeq(lines, 1, call.limit)
      [] call.op = "getDeploymentLogs" ->
             LET lines == << [ message |-> "listening" ] >>
             IN  IF call.limit >= Len(lines) THEN lines
                 ELSE SubSeq(lines, 1, call.limit)
      [] call.op = "healthCheckDeployment" ->
             IF call.deploymentId = "dep-1" THEN "SUCCESS" ELSE "CRASHED"
      [] OTHER -> ""

\* the platform's state after it served `call` with outcome `o`
Served(r, call, o) ==
    IF call.op = "upsertVariables"
    THEN [ r EXCEPT !.variables = UpsertMany(@, call.inputs, o.applied) ]
    ELSE IF o.status # "ok" THEN r
    ELSE CASE call.op = "createService" ->
                  [ r EXCEPT !.services = @ \cup
                        { [ id |-> NewServiceId, projectId |-> call.projectId,
                            name |-> call.name, image |-> call.image ] } ]
           [] call.op = "updateServiceInstance" ->
                  [ r EXCEPT !.regions = @ \cup
                        { [ serviceId |-> call.serviceId,
                            environmentId |-> call.environmentId,
                            region |-> call.region ] } ]
           [] call.op = "tcpProxyCreate" ->
                  [ r EXCEPT !.proxies = @ \cup
                        { [ serviceId |-> call.serviceId,
                            environmentId |-> call.environmentId,
                            applicationPort |-> call.applicationPort ] } ]
           [] call.op = "createVolume" ->
                  [ r EXCEPT !.volumes = @ \cup
                        { [ projectId |-> call.projectId,
                            environmentId |-> call.environmentId,
                            serviceId |-> call.serviceId,
                            mountPath |-> call.mountPath ] } ]
           [] call.op = "deployTemplate" ->
                  [ r EXCEPT !.workflows = @ \cup
                        { [ id |-> NewWorkflowId, templateId |-> call.templateId,
                            projectId |-> call.projectId,
                            environmentId |-> call.environmentId,
                            teamId |-> call.teamId, config |-> call.config ] } ]
           [] call.op = "restartService" ->
                  [ r EXCEPT !.restarts = @ \cup
                        { [ serviceId |-> call.serviceId,
                            environmentId |-> call.environmentId ] } ]
           [] call.op = "triggerDeployment" ->
                  [ r EXCEPT !.deployments = @ \cup
                        { [ id |-> NewDeploymentId, serviceId |-> call.serviceId,
                            environmentId |-> call.environmentId,
                            commitSha |-> call.commitSha ] } ]
           [] call.op = "serviceDomainCreate" ->
                  [ r EXCEPT !.domains = @ \cup { CreatedDomain(call) } ]
           [] call.op = "serviceDelete" ->
                  [ r EXCEPT !.services = { s \in @ : s.id # call.serviceId } ]
           [] OTHER -> r

\* what the caller is resumed with
Answered(r, call, o) ==
    [ Answer(call.op, o.status) EXCEPT
        !.id = IF call.op = "createService" /\ o.status = "ok"
               THEN NewServiceId
               ELSE IF call.op = "deployTemplate" /\ o.status = "ok"
               THEN NewWorkflowId ELSE "",
        !.templates = IF call.op = "listTemplates" /\ o.status = "ok"
                      THEN catalog ELSE << >>,
        !.variables = IF call.op = "getVariables" /\ o.status = "ok"
                      THEN GetVariables(r.variables, call.projectId,
                                        call.environmentId, call.serviceId)
                      ELSE << >>,
        !.data = IF o.status = "ok" /\ call.op \in { "triggerDeployment", "getBuildLogs",
                                      "getDeploymentLogs", "healthCheckDeployment" }
                 THEN Some(Payload(call))
                 ELSE IF o.status = "ok" /\ call.op = "serviceDomainAvailable"
                 THEN Some(Availability(r, call.domain[1]))
                 ELSE IF o.status = "ok" /\ call.op = "serviceDomainCreate"
                 THEN Some(CreatedDomain(call))
                 ELSE Absent,
        !.workflow = IF call.op = "getWorkflowStatus" /\ o.status = "ok"
                     THEN WorkflowStatus(r.workflows, call.workflowId)
                     ELSE Absent ]

\* the platform answers one pending call
Respond ==
    \E call \in pending :
        \E o \in Outcomes(call) :
            /\ resp.status = "none"
            /\ remote' = Served(remote, call, o)
            /\ resp' = Answered(remote, call, o)
            /\ pending' = pending \ { call }
            /\ acked' = IF o.status = "ok" THEN Append(acked, call.op) ELSE acked
            /\ UNCHANGED << pc, trace, result, catalog, req, template, service,
                            creq, sourceVars, varsToSet, before >>
            /\ UNCHANGED << srvVars, raceVars, opVars >>

-----------------------------------------------------------------------------
(* DatabaseService.createDatabaseFromTemplate *)

\* a lookup by id alone, whatever the category
FindTemplate_AnyCategory(templates, id) ==
    LET hits == { i \in 1..Len(templates) : templates[i].id = id }
    IN  IF hits = {} THEN Absent
        ELSE Some(templates[CHOOSE i \in hits : \A j \in hits : i <= j])

\* templates.filter(database category).find(t => t.id === id)
FindTemplate(templates, id) ==
    LET hits == { i \in 1..Len(templates) :
                      /\ IsDatabaseCategory(templates[i].category)
                      /\ templates[i].id = id }
    IN  IF hits = {} THEN Absent
        ELSE Some(templates[CHOOSE i \in hits : \A j \in hits : i <= j])

\* the message of the UserError a template is rejected with, << >> if none
TemplateError_UndefinedOnly(found) ==
    IF ~ IsSome(found) THEN << "Unsupported database" >>
    ELSE IF Len(found[1].services) = 0
    THEN << "Invalid database template: ", "No services found" >>
    ELSE IF ~ IsSome(found[1].services[1].image)
    THEN << "Invalid database template: ", "No image source found" >>
    ELSE << >>

\* the message of the UserError a template is rejected with, << >> if none
TemplateError(found) ==
    IF ~ IsSome(found) THEN << "Unsupported database" >>
    ELSE IF Len(found[1].services) = 0
    THEN << "Invalid database template: ", "No services found" >>
    ELSE IF ~ Truthy(found[1].services[1].image)
    THEN << "Invalid database template: ", "No image source found" >>
    ELSE << >>

\* const [_, serviceConfig] = services[0]
ServiceConfig == template[1].services[1]

\* a name that prefers the slot's declared name to the caller's
ServiceName_SlotFirst(name, config, tpl) ==
    IF Truthy(config.name) THEN config.name[1]
    ELSE IF Truthy(name) THEN name[1]
    ELSE tpl.name

\* name || serviceConfig.name || template.name
ServiceName(name, config, tpl) ==
    IF Truthy(name) THEN name[1]
    ELSE IF Truthy(config.name) THEN config.name[1]
    ELSE tpl.name

\* Object.entries(serviceConfig.variables).map(...)
VariableInputs(config, projectId, environmentId, serviceId) ==
    [ i \in 1..Len(config.variables[1]) |->
        [ projectId |-> projectId, environmentId |-> environmentId,
          serviceId |-> serviceId, name |-> config.variables[1][i].name,
          value |-> config.variables[1][i].defaultValue ] ]

\* a port taken from the last declared proxy
ProxyPort_LastProxy(config) ==
    IF ~ IsSome(config.tcpProxies) THEN 5432
    ELSE IF Len(config.tcpProxies[1]) = 0 THEN 5432
    ELSE IF IsSome(config.tcpProxies[1][Len(config.tcpProxies[1])])
    THEN config.tcpProxies[1][Len(config.tcpProxies[1])][1]
    ELSE 5432

\* the port the proxy binds
ProxyPort(config) ==
    IF ~ IsSome(config.tcpProxies) THEN 5432
    ELSE IF Len(config.tcpProxies[1]) = 0 THEN 5432
    ELSE IF IsSome(config.tcpProxies[1][1]) THEN config.tcpProxies[1][1][1]
    ELSE 5432

\* a mount path that is used as declared, empty or not
MountPath_NoDefaultForEmpty(config) ==
    IF IsSome(config.volumeMounts) /\ Len(config.volumeMounts[1]) > 0
    THEN config.volumeMounts[1][1]
    ELSE "/data"

\* Object.values(serviceConfig.volumeMounts || {})[0]?.mountPath || '/data'
MountPath(config) ==
    IF IsSome(config.volumeMounts) /\ Len(config.volumeMounts[1]) > 0
       /\ config.volumeMounts[1][1] # ""
    THEN config.volumeMounts[1][1]
    ELSE "/data"

\* the catch block: a UserError is rethrown, anything else is wrapped
ProvCatch(error) ==
    IF error.user THEN error ELSE Wrap("Error creating database", error)

\* a catch block that rolls the created service back
ProvCleanup_DeleteService(serviceId) ==
    IF serviceId = "" THEN << >>
    ELSE << [ NoArgs EXCEPT !.op = "serviceDelete", !.serviceId = serviceId ] >>

\* the remote calls the catch block issues for the service created so far
ProvCleanup(serviceId) == << >>

ProvFrame ==
    << catalog, req, remote, acked, creq, sourceVars, varsToSet, before,
       srvVars, raceVars, opVars >>

\* the code runs on to its next await, where it issues `call`
ProvIssue(call) ==
    /\ pending' = pending \cup { call }
    /\ trace' = Append(trace, call)
    /\ pc' = call.op
    /\ resp' = NoResp
    /\ result' = result

\* the code throws `error` inside the try block
ProvThrow(error) ==
    LET cleanup == ProvCleanup(service)
    IN  /\ pc' = "failed"
        /\ result' = Thrown(ProvCatch(error).chain)
        /\ pending' = pending \cup { cleanup[i] : i \in 1..Len(cleanup) }
        /\ trace' = trace \o cleanup
        /\ resp' = NoResp

\* the awaited call `op` has been answered
Resumed(op) == pc = op /\ resp.op = op /\ resp.status # "none"

\* await this.client.templates.listTemplates()
ProvStart ==
    /\ pc = "idle"
    /\ req.id # ""
    /\ ProvIssue([ NoArgs EXCEPT !.op = "listTemplates" ])
    /\ UNCHANGED << template, service >>
    /\ UNCHANGED ProvFrame

\* resolve the template, check it, await createService
ProvResolve ==
    /\ Resumed("listTemplates")
    /\ LET found == FindTemplate(resp.templates, req.id)
       IN  IF resp.status = "throw"
           THEN ProvThrow(ClientError("listTemplates")) /\ template' = template
           ELSE /\ template' = found
                /\ IF TemplateError(found) # << >>
                   THEN ProvThrow(UserError(TemplateError(found)))
                   ELSE ProvIssue([ NoArgs EXCEPT
                            !.op = "createService",
                            !.projectId = req.projectId,
                            !.name = ServiceName(req.name,
                                         found[1].services[1], found[1]),
                            !.image = found[1].services[1].image[1] ])
    /\ service' = service
    /\ UNCHANGED ProvFrame

\* the service exists: write the declared variables, or go on to the instance
ProvApplyVariables ==
    /\ Resumed("createService")
    /\ IF resp.status = "throw"
       THEN ProvThrow(ClientError("createService")) /\ service' = service
       ELSE /\ service' = resp.id
            /\ IF IsSome(ServiceConfig.variables)
               THEN ProvIssue([ NoArgs EXCEPT
                        !.op = "upsertVariables",
                        !.inputs = VariableInputs(ServiceConfig, req.projectId,
                                       req.environmentId, resp.id) ])
               ELSE ProvIssue([ NoArgs EXCEPT
                        !.op = "getServiceInstance",
                        !.serviceId = resp.id,
                        !.environmentId = req.environmentId ])
    /\ template' = template
    /\ UNCHANGED ProvFrame

\* a variable write that is issued again when it was rejected
ProvLookupInstance_Retry ==
    /\ Resumed("upsertVariables")
    /\ IF resp.status = "throw" /\ Len(trace) < 4
       THEN ProvIssue([ NoArgs EXCEPT
                !.op = "upsertVariables",
                !.inputs = VariableInputs(ServiceConfig, req.projectId,
                               req.environmentId, service) ])
       ELSE ProvIssue([ NoArgs EXCEPT
                !.op = "getServiceInstance",
                !.serviceId = service,
                !.environmentId = req.environmentId ])
    /\ UNCHANGED << template, service >>
    /\ UNCHANGED ProvFrame

\* the variables are written: await getServiceInstance
ProvLookupInstance ==
    /\ Resumed("upsertVariables")
    /\ IF resp.status = "throw"
       THEN ProvThrow(ClientError("upsertVariables"))
       ELSE ProvIssue([ NoArgs EXCEPT
                !.op = "getServiceInstance",
                !.serviceId = service,
                !.environmentId = req.environmentId ])
    /\ UNCHANGED << template, service >>
    /\ UNCHANGED ProvFrame

\* a place step that goes on to the region update whether or not the
\* instance was found
ProvUpdateRegion_IgnoresMissing ==
    /\ Resumed("getServiceInstance")
    /\ IF resp.status = "throw"
       THEN ProvThrow(ClientError("getServiceInstance"))
       ELSE ProvIssue([ NoArgs EXCEPT
                !.op = "updateServiceInstance",
                !.serviceId = service,
                !.environmentId = req.environmentId,
                !.region = req.region ])
    /\ UNCHANGED << template, service >>
    /\ UNCHANGED ProvFrame

\* the instance is looked up: await updateServiceInstance({ region })
ProvUpdateRegion ==
    /\ Resumed("getServiceInstance")
    /\ IF resp.status = "throw"
       THEN ProvThrow(ClientError("getServiceInstance"))
       ELSE IF resp.status = "null"
       THEN ProvThrow(UserError(<< "Service instance not found." >>))
       ELSE ProvIssue([ NoArgs EXCEPT
                !.op = "updateServiceInstance",
                !.serviceId = service,
                !.environmentId = req.environmentId,
                !.region = req.region ])
    /\ UNCHANGED << template, service >>
    /\ UNCHANGED ProvFrame

\* the region is set: await tcpProxyCreate
ProvExpose ==
    /\ Resumed("updateServiceInstance")
    /\ IF resp.status = "throw"
       THEN ProvThrow(ClientError("updateServiceInstance"))
       ELSE IF resp.status = "null"
       THEN ProvThrow(UserError(<< "Error updating service instance: ",
                "Failed to update service instance of ", service,
                " in environment ", req.environmentId >>))
       ELSE ProvIssue([ NoArgs EXCEPT
                !.op = "tcpProxyCreate",
                !.environmentId = req.environmentId,
                !.serviceId = service,
                !.applicationPort = ProxyPort(ServiceConfig) ])
    /\ UNCHANGED << template, service >>
    /\ UNCHANGED ProvFrame

\* the proxy exists: await createVolume
ProvAttachStorage ==
    /\ Resumed("tcpProxyCreate")
    /\ IF resp.status = "throw"
       THEN ProvThrow(ClientError("tcpProxyCreate"))
       ELSE IF resp.status = "null"
       THEN ProvThrow(UserError(<< "Error creating proxy: ",
                "Failed to create proxy for ", service,
                " in environment ", req.environmentId >>))
       ELSE ProvIssue([ NoArgs EXCEPT
                !.op = "createVolume",
                !.projectId = req.projectId,
                !.environmentId = req.environmentId,
                !.serviceId = service,
                !.mountPath = MountPath(ServiceConfig) ])
    /\ UNCHANGED << template, service >>
    /\ UNCHANGED ProvFrame

\* the volume exists: return buildOutput(service)
ProvReturn ==
    /\ Resumed("createVolume")
    /\ IF resp.status = "throw"
       THEN ProvThrow(ClientError("createVolume"))
       ELSE IF resp.status = "null"
       THEN ProvThrow(UserError(<< "Error creating volume: ",
                "Failed to create volume for ", service,
                " in environment ", req.environmentId >>))
       ELSE /\ pc' = "done"
            /\ result' = [ NoResult EXCEPT !.status = "ok", !.value = service ]
            /\ resp' = NoResp
            /\ UNCHANGED << pending, trace >>
    /\ UNCHANGED << template, service >>
    /\ UNCHANGED ProvFrame

NoRequest ==
    [ projectId |-> "", id |-> "", region |-> "", environmentId |-> "",
      name |-> Absent ]

NoCopy ==
    [ projectId |-> "", sourceEnvironmentId |-> "", targetEnvironmentId |-> "",
      serviceId |-> "", overwrite |-> FALSE ]

\* the arguments of no operation
NoOperation ==
    [ op |-> "none", projectId |-> "", templateId |-> "", environmentId |-> "",
      serviceId |-> Absent, teamId |-> Absent, searchQuery |-> Absent,
      workflowId |-> "", variables |-> << >>, deploymentId |-> "",
      commitSha |-> Absent, limit |-> Absent, domain |-> Absent,
      targetPort |-> Absent ]

\* no concurrent copies are running, no other operation is requested
InitNoRace ==
    /\ race = << >>
    /\ writes = << >>
    /\ opreq = NoOperation
    /\ matches = << >>
    /\ buildLogs = << >>

\* no request is being served
InitNoServer ==
    /\ server = "none"
    /\ inbound = << >>
    /\ defaultToken = Absent
    /\ rpc = << >>
    /\ session = << >>
    /\ railwayClient = Absent
    /\ sent = {}
    /\ outcome = << >>

InitProv ==
    /\ InitNoServer
    /\ InitNoRace
    /\ pc = "idle"
    /\ pending = {}
    /\ resp = NoResp
    /\ trace = << >>
    /\ acked = << >>
    /\ result = NoResult
    /\ remote = EmptyRemote
    /\ catalog \in Catalogs
    /\ req \in Requests
    /\ template = Absent
    /\ service = ""
    /\ creq = NoCopy
    /\ sourceVars = << >>
    /\ varsToSet = << >>
    /\ before = {}

NextProv ==
    \/ ProvStart
    \/ ProvResolve
    \/ ProvApplyVariables
    \/ ProvLookupInstance
    \/ ProvUpdateRegion
    \/ ProvExpose
    \/ ProvAttachStorage
    \/ ProvReturn
    \/ Respond

SpecProv == InitProv /\ [][NextProv]_vars

-----------------------------------------------------------------------------
(* VariableService.copyVariables and bulkUpsertVariables *)

KeyNames == << "A", "B", "C", "D" >>

\* the variable names of the model
Keys == { KeyNames[i] : i \in 1..MaxKeys }

\* the name -> value maps over Keys with values in `values`
Maps(values) ==
    UNION { [ S -> values ] : S \in SUBSET Keys }

\* a map as the platform stores it in one scope
Stored(map, projectId, environmentId, serviceId) ==
    { [ projectId |-> projectId, environmentId |-> environmentId,
        serviceId |-> serviceId, name |-> k, value |-> map[k] ] :
          k \in DOMAIN map }

\* a variable of another service's scope
Bystander ==
    [ projectId |-> "proj", environmentId |-> "envB", serviceId |-> "other",
      name |-> "A", value |-> "7" ]

CopyRequests ==
    [ projectId : {"proj"}, sourceEnvironmentId : {"envA"},
      targetEnvironmentId : {"envA", "envB"}, serviceId : {"", "svc-1"},
      overwrite : BOOLEAN ]

\* Object.entries(map), in the map's key order
Entries(map) == SelectSeq(KeyNames, LAMBDA k : k \in DOMAIN map)

\* Object.keys(map).length === 0
IsEmptyMap_Never(map) == FALSE

\* Object.keys(map).length === 0
IsEmptyMap(map) == DOMAIN map = {}

\* a write set that leaves out only the keys the target holds with the same value
VarsToSet_CompareValues(overwrite, source, target) ==
    IF overwrite THEN source
    ELSE [ k \in { k \in DOMAIN source :
                       ~ (k \in DOMAIN target /\ target[k] = source[k]) } |->
               source[k] ]

\* a write set that ignores the overwrite flag
VarsToSet_AlwaysAll(overwrite, source, target) == source

\* a write set that always leaves out the keys of the target
VarsToSet_NeverOverwrite(overwrite, source, target) ==
    [ k \in { k \in DOMAIN source : k \notin DOMAIN target } |-> source[k] ]

\* overwrite ? sourceVars : the entries of sourceVars whose key is not in targetVars
VarsToSet(overwrite, source, target) ==
    IF overwrite THEN source
    ELSE [ k \in { k \in DOMAIN source : k \notin DOMAIN target } |-> source[k] ]

\* inputs addressed to the source environment instead of the one passed in
BulkInputs_SourceEnvironment(projectId, environmentId, variables, serviceId) ==
    [ i \in 1..Len(Entries(variables)) |->
        [ projectId |-> projectId, environmentId |-> creq.sourceEnvironmentId,
          serviceId |-> serviceId, name |-> Entries(variables)[i],
          value |-> variables[Entries(variables)[i]] ] ]

\* inputs that leave the service out: every write lands in the shared scope
BulkInputs_NoService(projectId, environmentId, variables, serviceId) ==
    [ i \in 1..Len(Entries(variables)) |->
        [ projectId |-> projectId, environmentId |-> environmentId,
          serviceId |-> "", name |-> Entries(variables)[i],
          value |-> variables[Entries(variables)[i]] ] ]

\* bulkUpsertVariables' `inputs`
BulkInputs(projectId, environmentId, variables, serviceId) ==
    [ i \in 1..Len(Entries(variables)) |->
        [ projectId |-> projectId, environmentId |-> environmentId,
          serviceId |-> serviceId, name |-> Entries(variables)[i],
          value |-> variables[Entries(variables)[i]] ] ]

\* a count of the source's keys instead of the written ones
Copied_SourceSize(written) == Cardinality(DOMAIN sourceVars)

\* { copied: Object.keys(varsToSet).length }
Copied(written) == Cardinality(DOMAIN written)

CopyFrame ==
    << catalog, req, template, service, remote, acked, creq, srvVars, raceVars,
       opVars >>

\* the code runs on to its next await, where it issues `call`
CopyIssue(call, label) ==
    /\ pending' = pending \cup { call }
    /\ trace' = Append(trace, call)
    /\ pc' = label
    /\ resp' = NoResp
    /\ result' = result

\* copyVariables' catch block: every error is wrapped
CopyThrow(error) ==
    /\ pc' = "failed"
    /\ result' = Thrown(Wrap("Error copying variables", error).chain)
    /\ resp' = NoResp
    /\ UNCHANGED << pending, trace >>

\* return buildOutput({ copied: n })
CopyDone(n) ==
    /\ pc' = "done"
    /\ result' = [ NoResult EXCEPT !.status = "ok", !.count = n ]
    /\ resp' = NoResp
    /\ UNCHANGED << pending, trace >>

CopyResumed(label) == pc = label /\ resp.status # "none"

\* await getVariables(projectId, sourceEnvironmentId, serviceId)
CopyStart ==
    /\ pc = "idle"
    /\ creq.projectId # ""
    /\ CopyIssue([ NoArgs EXCEPT
           !.op = "getVariables", !.projectId = creq.projectId,
           !.environmentId = creq.sourceEnvironmentId,
           !.serviceId = creq.serviceId ], "copy:source")
    /\ before' = remote.variables
    /\ UNCHANGED << sourceVars, varsToSet >>
    /\ UNCHANGED CopyFrame

\* the source is read: return 0 if it is empty, else await the target's variables
CopyReadTarget ==
    /\ CopyResumed("copy:source")
    /\ IF resp.status = "throw"
       THEN CopyThrow(ClientError("getVariables")) /\ sourceVars' = sourceVars
       ELSE /\ sourceVars' = resp.variables
            /\ IF IsEmptyMap(resp.variables)
               THEN CopyDone(0)
               ELSE CopyIssue([ NoArgs EXCEPT
                        !.op = "getVariables", !.projectId = creq.projectId,
                        !.environmentId = creq.targetEnvironmentId,
                        !.serviceId = creq.serviceId ], "copy:target")
    /\ UNCHANGED << varsToSet, before >>
    /\ UNCHANGED CopyFrame

\* the target is read: compute varsToSet, return 0 if it is empty, else
\* bulkUpsertVariables awaits upsertVariables(inputs)
CopyWrite ==
    /\ CopyResumed("copy:target")
    /\ IF resp.status = "throw"
       THEN CopyThrow(ClientError("getVariables")) /\ varsToSet' = varsToSet
       ELSE LET toSet == VarsToSet(creq.overwrite, sourceVars, resp.variables)
            IN  /\ varsToSet' = toSet
                /\ IF IsEmptyMap(toSet)
                   THEN CopyDone(0)
                   ELSE CopyIssue([ NoArgs EXCEPT
                            !.op = "upsertVariables",
                            !.inputs = BulkInputs(creq.projectId,
                                           creq.targetEnvironmentId, toSet,
                                           creq.serviceId) ], "copy:upsert")
    /\ UNCHANGED << sourceVars, before >>
    /\ UNCHANGED CopyFrame

\* the bulk write is answered: bulkUpsertVariables wraps a rejection, and
\* copyVariables returns the number of keys of varsToSet
CopyReturn ==
    /\ CopyResumed("copy:upsert")
    /\ IF resp.status = "throw"
       THEN CopyThrow(Wrap("Error updating variables",
                           ClientError("upsertVariables")))
       ELSE CopyDone(Copied(varsToSet))
    /\ UNCHANGED << sourceVars, varsToSet, before >>
    /\ UNCHANGED CopyFrame

SourceValues == { "1", "2" }

TargetValues == { "2", "9" }

InitCopy ==
    /\ InitNoServer
    /\ InitNoRace
    /\ pc = "idle"
    /\ pending = {}
    /\ resp = NoResp
    /\ trace = << >>
    /\ acked = << >>
    /\ result = NoResult
    /\ creq \in CopyRequests
    /\ \E a \in Maps(SourceValues), b \in Maps(TargetValues) :
           remote = [ EmptyRemote EXCEPT !.variables =
               Stored(a, "proj", "envA", creq.serviceId)
               \cup Stored(b, "proj", "envB", creq.serviceId)
               \cup { Bystander } ]
    /\ catalog = << >>
    /\ req = NoRequest
    /\ template = Absent
    /\ service = ""
    /\ sourceVars = << >>
    /\ varsToSet = << >>
    /\ before = {}

NextCopy ==
    \/ CopyStart
    \/ CopyReadTarget
    \/ CopyWrite
    \/ CopyReturn
    \/ Respond

SpecCopy == InitCopy /\ [][NextCopy]_vars

-----------------------------------------------------------------------------
(* Properties of createDatabaseFromTemplate, checked under SpecProv *)

\* the template the request names in the platform's catalog
Requested == FindTemplate(catalog, req.id)

\* the requested template has no service slot, or a first slot without image
SlotlessOrImageless ==
    LET found == Requested
    IN  /\ IsSome(found)
        /\ \/ Len(found[1].services) = 0
           \/ ~ IsSome(found[1].services[1].image)
           \/ found[1].services[1].image[1] = ""

ProvisioningOps ==
    { "listTemplates", "createService", "upsertVariables",
      "getServiceInstance", "updateServiceInstance", "tcpProxyCreate",
      "createVolume" }

MutatingOps ==
    { "createService", "upsertVariables", "updateServiceInstance",
      "tcpProxyCreate", "createVolume", "serviceDelete" }

\* the names of the calls issued so far
TraceOps == [ i \in 1..Len(trace) |-> trace[i].op ]

Issued(op) == \E i \in 1..Len(trace) : trace[i].op = op

Acked(op) == \E i \in 1..Len(acked) : acked[i] = op

\* some message of the thrown error chain has `text` among its parts
ErrorNames(text) ==
    \E i \in 1..Len(result.error) :
        \E j \in 1..Len(result.error[i]) : result.error[i][j] = text

\* C1: provisioning a template with zero service slots, or whose first slot
\* has no image source, issues no mutating remote call at any point of the
\* run and leaves the platform untouched; once the catalog has been fetched
\* the run has failed with the single error "Invalid database template: ...".
C1_InvalidTemplateNoMutation ==
    SlotlessOrImageless =>
        /\ \A i \in 1..Len(trace) : trace[i].op \notin MutatingOps
        /\ remote = EmptyRemote
        /\ pc # "done"
        /\ (Acked("listTemplates") /\ pc # "listTemplates") =>
               /\ pc = "failed"
               /\ result.status = "error"
               /\ Len(result.error) = 1
               /\ result.error[1][1] = "Invalid database template: "

\* a run rejected for its image-less first slot after a successful fetch
C1_Witness ==
    /\ SlotlessOrImageless
    /\ Len(Requested[1].services) > 0
    /\ pc = "failed"
    /\ Acked("listTemplates")

\* C1 for the slot-less case alone
C1_WitnessNoSlots ==
    /\ SlotlessOrImageless
    /\ Len(Requested[1].services) = 0
    /\ pc = "failed"
    /\ Acked("listTemplates")

\* the run failed at the expose step: tcpProxyCreate was the last call
ExposeFailed ==
    /\ pc = "failed"
    /\ Len(trace) > 0
    /\ trace[Len(trace)].op = "tcpProxyCreate"

\* the created service and every declared variable are on the platform
ServiceAndVariablesExist ==
    /\ \E s \in remote.services : s.id = service
    /\ IsSome(ServiceConfig.variables) =>
           \A i \in 1..Len(ServiceConfig.variables[1]) :
               VariableInputs(ServiceConfig, req.projectId, req.environmentId,
                              service)[i] \in remote.variables

\* C2: when provisioning fails at the expose step, the service and its
\* variables still exist, no volume has been created, and the reported error
\* names the identifier of the created service.
C2_ExposeFailureNamesService ==
    ExposeFailed =>
        /\ ServiceAndVariablesExist
        /\ remote.volumes = {}
        /\ ErrorNames(service)

\* the part of C2 that holds however the proxy creation fails, and the
\* naming of the service when tcpProxyCreate answers with no proxy
C2_ExposeFailureLeavesService ==
    ExposeFailed =>
        /\ ServiceAndVariablesExist
        /\ remote.volumes = {}
        /\ result.error[1][1] = "Error creating proxy: " => ErrorNames(service)

\* the expose step failed because tcpProxyCreate was rejected
C2_Witness ==
    /\ ExposeFailed
    /\ IsSome(ServiceConfig.variables)
    /\ Len(ServiceConfig.variables[1]) > 0
    /\ result.error[1][1] = "Error creating database"

\* C3: whichever step fails, no delete or other compensating call is issued,
\* no call is left in flight, and everything an earlier successful step
\* created (service, variables, region setting, proxy) still exists when the
\* failure is reported.
C3_NoCompensation ==
    /\ \A i \in 1..Len(trace) : trace[i].op \in ProvisioningOps
    /\ pc = "failed" =>
           /\ pending = {}
           /\ Acked("createService") => \E s \in remote.services : s.id = service
           /\ Acked("upsertVariables") => ServiceAndVariablesExist
           /\ Acked("updateServiceInstance") =>
                  [ serviceId |-> service, environmentId |-> req.environmentId,
                    region |-> req.region ] \in remote.regions
           /\ Acked("tcpProxyCreate") =>
                  \E p \in remote.proxies :
                      p.serviceId = service /\ p.environmentId = req.environmentId

\* the volume step failed after service, variables, region and proxy were made
C3_Witness ==
    /\ pc = "failed"
    /\ Acked("upsertVariables")
    /\ Acked("tcpProxyCreate")
    /\ Cardinality(remote.variables) > 0
    /\ remote.volumes = {}

IsPrefix(s, t) == Len(s) <= Len(t) /\ \A i \in 1..Len(s) : s[i] = t[i]

\* the calls of a complete run for the requested template
ExpectedCalls ==
    LET found == Requested
    IN  IF \/ ~ IsSome(found)
           \/ Len(found[1].services) = 0
           \/ ~ Truthy(found[1].services[1].image)
        THEN << "listTemplates" >>
        ELSE << "listTemplates", "createService" >>
             \o (IF IsSome(found[1].services[1].variables)
                 THEN << "upsertVariables" >> ELSE << >>)
             \o << "getServiceInstance", "updateServiceInstance",
                   "tcpProxyCreate", "createVolume" >>

\* C4: the calls of a run are a prefix of fetch templates, create service,
\* write variables (when declared), get instance, update region, create
\* proxy, create volume; at most one call is in flight and it is the last one
\* issued, every earlier call was answered successfully, none is repeated,
\* and the run returns the service only after the whole sequence succeeded.
C4_SequentialNoRetry ==
    LET expected == ExpectedCalls
    IN  /\ IsPrefix(TraceOps, expected)
        /\ Cardinality(pending) <= 1
        /\ \A c \in pending : c = trace[Len(trace)]
        /\ IsPrefix(acked, TraceOps)
        /\ Len(trace) - Len(acked) <= 1
        /\ pending # {} => Len(acked) = Len(trace) - 1
        /\ (pc = "done" \/ result.status = "ok") =>
               /\ pc = "done"
               /\ result.status = "ok"
               /\ TraceOps = expected
               /\ acked = expected
               /\ result.value = service
               /\ \E s \in remote.services : s.id = service

\* a run that returned the service after writing declared variables
C4_Witness ==
    /\ pc = "done"
    /\ Len(trace) = 7
    /\ Cardinality(remote.volumes) = 1

-----------------------------------------------------------------------------
(* Properties of copyVariables, checked under SpecCopy: one copy at a time  *)
(* on scopes no one else writes.                                            *)

\* the source and target scopes of the running copy within `variables`
SourceScope(variables) ==
    GetVariables(variables, creq.projectId, creq.sourceEnvironmentId,
                 creq.serviceId)

TargetScope(variables) ==
    GetVariables(variables, creq.projectId, creq.targetEnvironmentId,
                 creq.serviceId)

SourceBefore == SourceScope(before)

TargetBefore == TargetScope(before)

TargetNow == TargetScope(remote.variables)

\* the keys the claims say a copy writes
WriteSet ==
    IF creq.overwrite THEN DOMAIN SourceBefore
    ELSE DOMAIN SourceBefore \ DOMAIN TargetBefore

\* a key both scopes held, with different values, when the copy started
Conflict ==
    \E k \in DOMAIN SourceBefore \cap DOMAIN TargetBefore :
        SourceBefore[k] # TargetBefore[k]

\* C5: with overwrite=false, every key the target scope held before the copy
\* holds the same value at every later point of the copy, however it ends.
C5_NoOverwriteKeepsTarget ==
    (pc # "idle" /\ ~ creq.overwrite) =>
        \A k \in DOMAIN TargetBefore :
            /\ k \in DOMAIN TargetNow
            /\ TargetNow[k] = TargetBefore[k]

\* a copy without overwrite that wrote keys next to a conflicting one
C5_Witness ==
    /\ pc = "done"
    /\ ~ creq.overwrite
    /\ result.count > 0
    /\ Conflict

\* C6: after a copy with overwrite=true that returned, every key of the
\* source scope is in the target scope with the source's value.
C6_OverwriteCopiesAll ==
    (pc = "done" /\ creq.overwrite) =>
        \A k \in DOMAIN SourceBefore :
            /\ k \in DOMAIN TargetNow
            /\ TargetNow[k] = SourceBefore[k]

\* an overwriting copy that replaced a conflicting value
C6_Witness ==
    /\ pc = "done"
    /\ creq.overwrite
    /\ Conflict
    /\ result.count > 0

\* the variables a bulk write carries, as a set
WrittenBy(call) == { call.inputs[i] : i \in 1..Len(call.inputs) }

\* C7: the bulk write carries exactly the write set (all source keys with
\* overwrite, else the source keys that are no keys of the target, whatever
\* their values) with the source's values, addressed to the target scope,
\* and `copied` is the size of that set; with source {A:1,B:2} and target
\* {B:9}, overwrite=false gives copied=1 and target {B:9,A:1}, and
\* overwrite=true gives copied=2 and target {A:1,B:2}.
C7_WriteSetAndCount ==
    /\ \A i \in 1..Len(trace) :
           trace[i].op = "upsertVariables" =>
               /\ WrittenBy(trace[i]) =
                      { [ projectId |-> creq.projectId,
                          environmentId |-> creq.targetEnvironmentId,
                          serviceId |-> creq.serviceId,
                          name |-> k, value |-> SourceBefore[k] ] :
                            k \in WriteSet }
               /\ Len(trace[i].inputs) = Cardinality(WriteSet)
    /\ pc = "done" => result.count = Cardinality(WriteSet)
    /\ ( /\ pc = "done"
         /\ creq.targetEnvironmentId # creq.sourceEnvironmentId
         /\ SourceBefore = ("A" :> "1" @@ "B" :> "2")
         /\ TargetBefore = ("B" :> "9") ) =>
           IF creq.overwrite
           THEN result.count = 2 /\ TargetNow = ("A" :> "1" @@ "B" :> "2")
           ELSE result.count = 1 /\ TargetNow = ("A" :> "1" @@ "B" :> "9")

\* the scenario source {A:1,B:2}, target {B:9}, overwrite=false, copied
C7_Witness ==
    /\ pc = "done"
    /\ ~ creq.overwrite
    /\ creq.targetEnvironmentId # creq.sourceEnvironmentId
    /\ SourceBefore = ("A" :> "1" @@ "B" :> "2")
    /\ TargetBefore = ("B" :> "9")

\* the same scenario with overwrite=true
C7_WitnessOverwrite ==
    /\ pc = "done"
    /\ creq.overwrite
    /\ creq.targetEnvironmentId # creq.sourceEnvironmentId
    /\ SourceBefore = ("A" :> "1" @@ "B" :> "2")
    /\ TargetBefore = ("B" :> "9")

\* `call` reads the scope of environment `environmentId`
ReadsScope(call, environmentId) ==
    /\ call.op = "getVariables"
    /\ call.projectId = creq.projectId
    /\ call.environmentId = environmentId
    /\ call.serviceId = creq.serviceId

\* C8: a copy reads the source; with an empty source it returns 0 and issues
\* nothing more; else it reads the target, and then issues a bulk write only
\* when the write set is not empty, once; an empty write set returns 0.
C8_CallSequence ==
    /\ IsPrefix(TraceOps, << "getVariables", "getVariables", "upsertVariables" >>)
    /\ IsPrefix(acked, TraceOps)
    /\ Len(trace) >= 1 => ReadsScope(trace[1], creq.sourceEnvironmentId)
    /\ Len(trace) >= 2 =>
           /\ ReadsScope(trace[2], creq.targetEnvironmentId)
           /\ Len(acked) >= 1
           /\ DOMAIN SourceBefore # {}
    /\ Len(trace) >= 3 =>
           /\ Len(acked) >= 2
           /\ WriteSet # {}
           /\ Len(trace[3].inputs) > 0
    /\ (DOMAIN SourceBefore = {} /\ Len(acked) >= 1 /\ pc # "copy:source") =>
           pc = "done" /\ result.count = 0 /\ Len(trace) = 1
    /\ (WriteSet = {} /\ Len(acked) >= 2 /\ pc # "copy:target") =>
           pc = "done" /\ result.count = 0 /\ Len(trace) = 2
    /\ pc = "done" => pending = {}

\* two reads, an empty write set, no write
C8_Witness ==
    /\ pc = "done"
    /\ Len(trace) = 2
    /\ DOMAIN SourceBefore # {}
    /\ result.count = 0

\* an empty source: one read and nothing else
C8_WitnessEmptySource ==
    /\ pc = "done"
    /\ Len(trace) = 1
    /\ DOMAIN TargetBefore # {}

\* two reads and one bulk write
C8_WitnessWrite ==
    /\ pc = "done"
    /\ Len(trace) = 3

\* C9: a copy never deletes: at every point of a copy, however it ends, every
\* earlier key of the target is still there, the target's keys lie within
\* the earlier keys united with the write set, and the source scope is
\* unchanged; after the copy has returned, the target's keys are exactly
\* the earlier keys united with the write set.
C9_NeverDeletes ==
    pc # "idle" =>
        /\ DOMAIN TargetBefore \subseteq DOMAIN TargetNow
        /\ DOMAIN TargetNow \subseteq DOMAIN TargetBefore \cup WriteSet
        /\ SourceScope(remote.variables) = SourceBefore
        /\ pc = "done" => DOMAIN TargetNow = DOMAIN TargetBefore \cup WriteSet

\* a returned copy that added keys to a target holding a key of its own
C9_Witness ==
    /\ pc = "done"
    /\ result.count > 0
    /\ DOMAIN TargetBefore \ DOMAIN SourceBefore # {}
    /\ DOMAIN SourceBefore \ DOMAIN TargetBefore # {}

-----------------------------------------------------------------------------
(* The two HTTP entry points: the FastMCP server (authenticate and the     *)
(* tools' execute) and the Express handler of POST /mcp.  Header values    *)
(* and tokens are sequences of one-character strings.                      *)

MaxRequests == 2

Inbound == 1..MaxRequests

BearerPrefix == << "B","e","a","r","e","r"," " >>

\* String.prototype.startsWith
StartsWith(s, prefix) ==
    /\ Len(s) >= Len(prefix)
    /\ SubSeq(s, 1, Len(prefix)) = prefix

\* String.prototype.slice(n)
Slice(s, n) == SubSeq(s, n + 1, Len(s))

\* String.prototype.replace(pattern, by) with a string pattern: the first
\* occurrence only
Replace(s, pattern, by) ==
    IF Includes(s, pattern)
    THEN LET at == CHOOSE i \in 0..(Len(s) - Len(pattern)) :
                     /\ SubSeq(s, i + 1, i + Len(pattern)) = pattern
                     /\ \A j \in 0..(i - 1) :
                            SubSeq(s, j + 1, j + Len(pattern)) # pattern
         IN  SubSeq(s, 1, at) \o by \o SubSeq(s, at + Len(pattern) + 1, Len(s))
    ELSE s

\* JS truthiness of an optional string of characters
NonEmpty(o) == IsSome(o) /\ Len(o[1]) > 0

\* a || b on optional strings
OrElse(a, b) == IF NonEmpty(a) THEN a ELSE b

TokenA == << "a" >>

TokenB == << "b" >>

AuthorizationValues ==
    { Absent, Some(BearerPrefix \o TokenA), Some(BearerPrefix \o TokenB),
      Some(BearerPrefix), Some(TokenA) }

\* the headers a request arrives with
HeaderSets ==
    { h \in [ authorization : AuthorizationValues,
              xRailwayToken : { Absent, Some(<< "x" >>) },
              railwayToken : { Absent, Some(<< "y" >>) } ] :
        ~ (IsSome(h.xRailwayToken) /\ IsSome(h.railwayToken)) }

DefaultTokens == { Absent, Some(<< "d" >>) }

\* a variant that takes the whole header value, whatever its scheme
BearerToken_AnyScheme(headers) ==
    IF NonEmpty(headers.authorization) THEN headers.authorization ELSE Absent

\* index.ts: raw?.startsWith('Bearer ') ? raw.slice(7) : null, and the test
\* !railwayToken that follows
BearerToken(headers) ==
    LET raw == headers.authorization
        railwayToken ==
            IF IsSome(raw) /\ StartsWith(raw[1], BearerPrefix)
            THEN Some(Slice(raw[1], 7))
            ELSE Absent
    IN  IF NonEmpty(railwayToken) THEN railwayToken ELSE Absent

\* the Express handler's accessToken
AccessToken(headers, default) ==
    LET bearer == IF IsSome(headers.authorization)
                  THEN Some(Replace(headers.authorization[1], BearerPrefix, << >>))
                  ELSE Absent
        token == OrElse(OrElse(OrElse(bearer, headers.xRailwayToken),
                               headers.railwayToken), default)
    IN  IF NonEmpty(token) THEN token ELSE Absent

\* railwayClient.setToken(token): the module-level client keeps the token
SetToken(client, token) == Some(token)

\* a client's remote call carries the token the client holds at that moment
TokenOf(client) == client[1]

RemoteCall(r, token) == [ request |-> r, token |-> token ]

ServerFrame == << coreVars, raceVars, opVars, server, inbound, defaultToken >>

\* FastMCP authenticate: the session's client is built from this request's
\* bearer token, or is null
FastAuthenticate(r) ==
    /\ server = "fastmcp"
    /\ rpc[r] = "received"
    /\ session' = [ session EXCEPT ![r] = BearerToken(inbound[r]) ]
    /\ rpc' = [ rpc EXCEPT ![r] = "authenticated" ]
    /\ UNCHANGED << railwayClient, sent, outcome >>
    /\ UNCHANGED ServerFrame

\* a tool's execute: the handler runs on the session's client
FastExecute(r) ==
    /\ server = "fastmcp"
    /\ rpc[r] = "authenticated"
    /\ IF ~ IsSome(session[r])
       THEN /\ outcome' = [ outcome EXCEPT ![r] = "Railway session not available" ]
            /\ sent' = sent
       ELSE /\ sent' = sent \cup { RemoteCall(r, TokenOf(session[r])) }
            /\ outcome' = [ outcome EXCEPT ![r] = "ok" ]
    /\ rpc' = [ rpc EXCEPT ![r] = "answered" ]
    /\ UNCHANGED << session, railwayClient >>
    /\ UNCHANGED ServerFrame

\* POST /mcp up to the await of setToken
ExpressAccept(r) ==
    /\ server = "express"
    /\ rpc[r] = "received"
    /\ LET accessToken == AccessToken(inbound[r], defaultToken)
       IN  IF ~ IsSome(accessToken)
           THEN /\ outcome' = [ outcome EXCEPT ![r] = "401" ]
                /\ rpc' = [ rpc EXCEPT ![r] = "answered" ]
                /\ railwayClient' = railwayClient
           ELSE /\ railwayClient' = SetToken(railwayClient, accessToken[1])
                /\ rpc' = [ rpc EXCEPT ![r] = "authenticated" ]
                /\ outcome' = outcome
    /\ UNCHANGED << session, sent >>
    /\ UNCHANGED ServerFrame

\* POST /mcp after setToken: a server and transport of its own, and the
\* tool's remote call through the module-level client
ExpressHandle(r) ==
    /\ server = "express"
    /\ rpc[r] = "authenticated"
    /\ sent' = sent \cup { RemoteCall(r, TokenOf(railwayClient)) }
    /\ outcome' = [ outcome EXCEPT ![r] = "ok" ]
    /\ rpc' = [ rpc EXCEPT ![r] = "answered" ]
    /\ UNCHANGED << session, railwayClient >>
    /\ UNCHANGED ServerFrame

InitServer ==
    /\ InitNoRace
    /\ pc = "idle"
    /\ pending = {}
    /\ resp = NoResp
    /\ trace = << >>
    /\ acked = << >>
    /\ result = NoResult
    /\ remote = EmptyRemote
    /\ catalog = << >>
    /\ req = NoRequest
    /\ template = Absent
    /\ service = ""
    /\ creq = NoCopy
    /\ sourceVars = << >>
    /\ varsToSet = << >>
    /\ before = {}
    /\ server \in { "fastmcp", "express" }
    /\ inbound \in [ Inbound -> HeaderSets ]
    /\ defaultToken \in DefaultTokens
    /\ rpc = [ r \in Inbound |-> "received" ]
    /\ session = [ r \in Inbound |-> Absent ]
    /\ railwayClient = Absent
    /\ sent = {}
    /\ outcome = [ r \in Inbound |-> "none" ]

NextServer ==
    \/ \E r \in Inbound : FastAuthenticate(r)
    \/ \E r \in Inbound : FastExecute(r)
    \/ \E r \in Inbound : ExpressAccept(r)
    \/ \E r \in Inbound : ExpressHandle(r)

SpecServer == InitServer /\ [][NextServer]_vars

-----------------------------------------------------------------------------
(* Request isolation *)

\* the request carries a bearer credential
CarriesCredential(r) == IsSome(BearerToken(inbound[r]))

\* the credential supplied on the request
Credential(r) == BearerToken(inbound[r])[1]

\* two requests carrying different credentials
DifferentCredentials(r, q) ==
    /\ CarriesCredential(r)
    /\ CarriesCredential(q)
    /\ Credential(r) # Credential(q)

\* the FastMCP entry point alone: every call carries its request's credential
\* and the module-level client holds none
FastMcpIsolated ==
    server = "fastmcp" =>
        /\ railwayClient = Absent
        /\ \A c \in sent :
               /\ CarriesCredential(c.request)
               /\ c.token = Credential(c.request)

C10_WitnessCrossed ==
    \E r, q \in Inbound :
        /\ DifferentCredentials(r, q)
        /\ RemoteCall(r, Credential(q)) \in sent

-----------------------------------------------------------------------------
(* Requests without a credential *)

\* the request carries no credential the serving entry point accepts
NoCredential(r) ==
    LET h == inbound[r]
    IN  IF server = "fastmcp"
        THEN \/ ~ IsSome(h.authorization)
             \/ ~ StartsWith(h.authorization[1], BearerPrefix)
             \/ Len(h.authorization[1]) = Len(BearerPrefix)
        ELSE /\ ~ IsSome(h.authorization)
             /\ ~ IsSome(h.xRailwayToken)
             /\ ~ IsSome(h.railwayToken)
             /\ ~ IsSome(defaultToken)

\* C11: a request that carries no credential never has a remote call made
\* for it and never gets its tool run; once answered, its answer is an error
\* (401 from the Express handler, 'Railway session not available' from the
\* FastMCP tool wrapper).
C11_NoCredentialFails ==
    \A r \in Inbound :
        NoCredential(r) =>
            /\ \A c \in sent : c.request # r
            /\ outcome[r] # "ok"
            /\ rpc[r] = "answered" =>
                   outcome[r] = IF server = "fastmcp"
                                THEN "Railway session not available"
                                ELSE "401"

\* the FastMCP server has answered a request whose Authorization header is
\* not a bearer token, while serving another request that carries one
C11_Witness ==
    \E r, q \in Inbound :
        /\ server = "fastmcp"
        /\ NoCredential(r)
        /\ IsSome(inbound[r].authorization)
        /\ rpc[r] = "answered"
        /\ RemoteCall(q, TokenA) \in sent

\* the Express handler has answered a request without any credential, after
\* another request left its token in the module-level client
C11_WitnessExpress ==
    \E r \in Inbound :
        /\ server = "express"
        /\ NoCredential(r)
        /\ rpc[r] = "answered"
        /\ IsSome(railwayClient)

-----------------------------------------------------------------------------
(* What a provisioning failure after createService reports *)

\* the run failed after the service had been created
FailedAfterCreate ==
    /\ pc = "failed"
    /\ Acked("createService")

\* the call the run failed at
FailedOp == trace[Len(trace)].op

\* the text by which the code names each step in its own errors
StepText(op) ==
    CASE op = "getServiceInstance" -> "Service instance not found."
      [] op = "updateServiceInstance" -> "Error updating service instance: "
      [] op = "tcpProxyCreate" -> "Error creating proxy: "
      [] op = "createVolume" -> "Error creating volume: "
      [] OTHER -> "Error updating variables"

\* the reported error names the failed step: by the code's text for it, or
\* by the failed call in the cause it carries
StepNamed == ErrorNames(StepText(FailedOp)) \/ ErrorNames(FailedOp)

\* C12: whenever provisioning fails after the service was created, at any of
\* the later steps and whether the call answered empty or raised, the
\* reported error carries the created service's identifier and names the
\* failed step.
C12_FailureNamesServiceAndStep ==
    FailedAfterCreate =>
        /\ ErrorNames(service)
        /\ StepNamed

\* the part of C12 that holds: an empty answer of the region update, the
\* proxy creation or the volume creation is reported with the service's
\* identifier and the step
C12_EmptyAnswerNamesService ==
    ( /\ FailedAfterCreate
      /\ FailedOp \in { "updateServiceInstance", "tcpProxyCreate", "createVolume" }
      /\ result.error[1][1] # "Error creating database" ) =>
        /\ ErrorNames(service)
        /\ ErrorNames(StepText(FailedOp))

\* the instance lookup answered empty after the service was created
C12_Witness ==
    /\ FailedAfterCreate
    /\ FailedOp = "getServiceInstance"
    /\ result.error[1][1] = "Service instance not found."

-----------------------------------------------------------------------------
(* Which templates reach createService *)

\* C13: createService is issued only for a resolved template that has
\* exactly one service slot, with a non-empty image source.
C13_CreateOnlyForSingleSlot ==
    Issued("createService") =>
        LET found == Requested
        IN  /\ IsSome(found)
            /\ Len(found[1].services) = 1
            /\ Truthy(found[1].services[1].image)

\* the part of C13 that holds: createService is issued only for a resolved
\* template with at least one slot whose first slot has a non-empty image,
\* and it is that image the service is created from
C13_CreateOnlyWithImage ==
    \A i \in 1..Len(trace) :
        trace[i].op = "createService" =>
            LET found == Requested
            IN  /\ IsSome(found)
                /\ Len(found[1].services) >= 1
                /\ Truthy(found[1].services[1].image)
                /\ trace[i].image = found[1].services[1].image[1]

\* a service has been created from the first slot of a two-slot template
C13_Witness ==
    /\ Acked("createService")
    /\ Len(Requested[1].services) = 2
    /\ \E s \in remote.services : s.image = "postgres:16"

-----------------------------------------------------------------------------
(* Two copyVariables calls running concurrently onto one target scope.     *)
(* Each remote call of a copy is served by the platform at one instant, so *)
(* a copy takes one step per call; the copies' calls interleave freely.    *)

Copiers == { "first", "second" }

\* the two copies: different source environments, one target scope
RaceRequest(c) ==
    [ projectId |-> "proj",
      sourceEnvironmentId |-> IF c = "first" THEN "envA" ELSE "envC",
      targetEnvironmentId |-> "envB", serviceId |-> "svc-1",
      overwrite |-> FALSE ]

\* the locals of a copy that has not started
NoLocals ==
    [ pc |-> "start", sourceVars |-> << >>, targetVars |-> << >>,
      varsToSet |-> << >>, status |-> "none", copied |-> 0 ]

RaceFrame == << pc, pending, resp, trace, acked, result, catalog, req,
                template, service, creq, sourceVars, varsToSet, before,
                srvVars, opVars >>

\* the platform's answer to a call of a copy: ok or a rejection
RaceOutcomes(call) == { o \in Outcomes(call) : o.status \in { "ok", "throw" } }

\* return buildOutput({ copied: n })
RaceDone(c, locals, n) ==
    race' = [ race EXCEPT ![c] = [ locals EXCEPT !.pc = "done", !.status = "ok",
                                                 !.copied = n ] ]

\* the catch block of copyVariables
RaceThrow(c) ==
    race' = [ race EXCEPT ![c] = [ @ EXCEPT !.pc = "failed", !.status = "error" ] ]

\* await getVariables(source); return 0 if the source is empty
RaceReadSource(c) ==
    /\ race[c].pc = "start"
    /\ LET r == RaceRequest(c)
           call == [ NoArgs EXCEPT !.op = "getVariables",
                        !.projectId = r.projectId,
                        !.environmentId = r.sourceEnvironmentId,
                        !.serviceId = r.serviceId ]
       IN  \E o \in RaceOutcomes(call) :
               IF o.status = "throw" THEN RaceThrow(c)
               ELSE LET read == GetVariables(remote.variables, r.projectId,
                                    r.sourceEnvironmentId, r.serviceId)
                        locals == [ race[c] EXCEPT !.sourceVars = read ]
                    IN  IF IsEmptyMap(read) THEN RaceDone(c, locals, 0)
                        ELSE race' = [ race EXCEPT ![c] =
                                 [ locals EXCEPT !.pc = "read-target" ] ]
    /\ UNCHANGED << remote, writes >>
    /\ UNCHANGED RaceFrame

\* await getVariables(target); compute varsToSet; return 0 if it is empty
RaceReadTarget(c) ==
    /\ race[c].pc = "read-target"
    /\ LET r == RaceRequest(c)
           call == [ NoArgs EXCEPT !.op = "getVariables",
                        !.projectId = r.projectId,
                        !.environmentId = r.targetEnvironmentId,
                        !.serviceId = r.serviceId ]
       IN  \E o \in RaceOutcomes(call) :
               IF o.status = "throw" THEN RaceThrow(c)
               ELSE LET read == GetVariables(remote.variables, r.projectId,
                                    r.targetEnvironmentId, r.serviceId)
                        chosen == VarsToSet(r.overwrite, race[c].sourceVars, read)
                        locals == [ race[c] EXCEPT !.targetVars = read,
                                                   !.varsToSet = chosen ]
                    IN  IF IsEmptyMap(chosen) THEN RaceDone(c, locals, 0)
                        ELSE race' = [ race EXCEPT ![c] =
                                 [ locals EXCEPT !.pc = "write" ] ]
    /\ UNCHANGED << remote, writes >>
    /\ UNCHANGED RaceFrame

\* await bulkUpsertVariables(target, varsToSet); return the number written
RaceWrite(c) ==
    /\ race[c].pc = "write"
    /\ LET r == RaceRequest(c)
           call == [ NoArgs EXCEPT !.op = "upsertVariables",
                        !.inputs = BulkInputs(r.projectId, r.targetEnvironmentId,
                                              race[c].varsToSet, r.serviceId) ]
       IN  \E o \in RaceOutcomes(call) :
               /\ remote' = Served(remote, call, o)
               /\ IF o.status = "throw"
                  THEN RaceThrow(c) /\ writes' = writes
                  ELSE /\ RaceDone(c, race[c], Copied(race[c].varsToSet))
                       /\ writes' = Append(writes, c)
    /\ UNCHANGED RaceFrame

\* the values the two sources and the target start with
RaceValues(environmentId) ==
    CASE environmentId = "envA" -> { "1" }
      [] environmentId = "envC" -> { "2" }
      [] OTHER -> { "9" }

InitRace ==
    /\ InitNoServer
    /\ pc = "idle"
    /\ pending = {}
    /\ resp = NoResp
    /\ trace = << >>
    /\ acked = << >>
    /\ result = NoResult
    /\ catalog = << >>
    /\ req = NoRequest
    /\ template = Absent
    /\ service = ""
    /\ creq = NoCopy
    /\ sourceVars = << >>
    /\ varsToSet = << >>
    /\ \E a \in Maps(RaceValues("envA")), c \in Maps(RaceValues("envC")),
          b \in Maps(RaceValues("envB")) :
           remote = [ EmptyRemote EXCEPT !.variables =
               Stored(a, "proj", "envA", "svc-1")
               \cup Stored(c, "proj", "envC", "svc-1")
               \cup Stored(b, "proj", "envB", "svc-1") ]
    /\ before = remote.variables
    /\ race = [ c \in Copiers |-> NoLocals ]
    /\ writes = << >>
    /\ opreq = NoOperation
    /\ matches = << >>
    /\ buildLogs = << >>

NextRace ==
    \/ \E c \in Copiers : RaceReadSource(c)
    \/ \E c \in Copiers : RaceReadTarget(c)
    \/ \E c \in Copiers : RaceWrite(c)

SpecRace == InitRace /\ [][NextRace]_vars

-----------------------------------------------------------------------------
(* The race of two concurrent copies *)

\* the shared target scope, now and before either copy started
RaceTarget == GetVariables(remote.variables, "proj", "envB", "svc-1")

RaceTargetBefore == GetVariables(before, "proj", "envB", "svc-1")

\* the copies whose bulk write landed and wrote key k, in landing order
WritersOf(k) == SelectSeq(writes, LAMBDA c : k \in DOMAIN race[c].varsToSet)

\* both copies chose key k, absent from the target at first, for writing
BothChose(k) ==
    /\ k \notin DOMAIN RaceTargetBefore
    /\ \A c \in Copiers : k \in DOMAIN race[c].varsToSet

\* C14: each of two concurrent overwrite=false copies onto one scope decides
\* its write set from its own earlier read of the target (the source keys
\* absent from that read) and reports as copied every key of that set; once
\* neither copy is still running or has failed, every key written holds the
\* value of the copy whose bulk write landed last, whatever the target held
\* when that write landed.
C14_LastWriteWins ==
    /\ \A c \in Copiers :
           race[c].pc \in { "write", "done" } =>
               /\ DOMAIN race[c].varsToSet =
                      DOMAIN race[c].sourceVars \ DOMAIN race[c].targetVars
               /\ \A k \in DOMAIN race[c].varsToSet :
                      race[c].varsToSet[k] = race[c].sourceVars[k]
               /\ (race[c].pc = "done") =>
                      race[c].copied = Cardinality(DOMAIN race[c].varsToSet)
    /\ (\A c \in Copiers : race[c].pc = "done") =>
           \A k \in Keys :
               IF WritersOf(k) = << >>
               THEN /\ (k \in DOMAIN RaceTarget) = (k \in DOMAIN RaceTargetBefore)
                    /\ k \in DOMAIN RaceTarget => RaceTarget[k] = RaceTargetBefore[k]
               ELSE LET last == WritersOf(k)[Len(WritersOf(k))]
                    IN  /\ k \in DOMAIN RaceTarget
                        /\ RaceTarget[k] = race[last].sourceVars[k]

\* the race: a key absent from the target was chosen by both copies, both
\* report it as copied, the first copy's write landed first and the second
\* copy's write then replaced the value the key had by then
C14_Witness ==
    \E k \in Keys :
        /\ BothChose(k)
        /\ \A c \in Copiers : race[c].pc = "done" /\ race[c].copied >= 1
        /\ writes = << "first", "second" >>
        /\ race["first"].sourceVars[k] # race["second"].sourceVars[k]
        /\ RaceTarget[k] = race["second"].sourceVars[k]

\* the same race with the writes landing in the other order
C14_WitnessOtherOrder ==
    \E k \in Keys :
        /\ BothChose(k)
        /\ \A c \in Copiers : race[c].pc = "done"
        /\ writes = << "second", "first" >>
        /\ RaceTarget[k] = race["first"].sourceVars[k]

-----------------------------------------------------------------------------
(* TemplatesService.deployTemplate *)

OpFrame == << catalog, req, service, remote, acked, creq, sourceVars,
              varsToSet, before, srvVars, raceVars, opVars >>

\* the code runs on to its next await, where it issues `call`
OpIssue(call, label) ==
    /\ pending' = pending \cup { call }
    /\ trace' = Append(trace, call)
    /\ pc' = label
    /\ resp' = NoResp
    /\ result' = result

\* the operation throws `error`
OpThrow(error) ==
    /\ pc' = "failed"
    /\ result' = Thrown(error.chain)
    /\ resp' = NoResp
    /\ UNCHANGED << pending, trace >>

\* return buildOutput(value)
OpReturn(value) ==
    /\ pc' = "done"
    /\ result' = [ NoResult EXCEPT !.status = "ok", !.value = value ]
    /\ resp' = NoResp
    /\ UNCHANGED << pending, trace >>

OpResumed(label) == pc = label /\ resp.status # "none"

\* a lookup that falls back on the first template of the catalog
FindById_OrFirst(templates, id) ==
    IF \E i \in 1..Len(templates) : templates[i].id = id
    THEN Some(templates[CHOOSE i \in 1..Len(templates) :
                  /\ templates[i].id = id
                  /\ \A j \in 1..(i - 1) : templates[j].id # id])
    ELSE IF Len(templates) > 0 THEN Some(templates[1]) ELSE Absent

\* templates.find((t) => t.id === templateId)
FindById(templates, id) ==
    IF \E i \in 1..Len(templates) : templates[i].id = id
    THEN Some(templates[CHOOSE i \in 1..Len(templates) :
                  /\ templates[i].id = id
                  /\ \A j \in 1..(i - 1) : templates[j].id # id])
    ELSE Absent

\* deployTemplate's catch block: a UserError is rethrown, the rest wrapped
DeployCatch(error) ==
    IF error.user THEN error
    ELSE Wrap("Error creating service from template", error)

\* await this.client.templates.listTemplates()
DeployStart ==
    /\ pc = "idle"
    /\ opreq.op = "deployTemplate"
    /\ OpIssue([ NoArgs EXCEPT !.op = "listTemplates" ], "deploy:templates")
    /\ template' = template
    /\ UNCHANGED OpFrame

\* find the template by id; throw if there is none, else await the deploy
DeployResolve ==
    /\ OpResumed("deploy:templates")
    /\ IF resp.status = "throw"
       THEN OpThrow(DeployCatch(ClientError("listTemplates"))) /\ template' = template
       ELSE LET found == FindById(resp.templates, opreq.templateId)
            IN  /\ template' = found
                /\ IF ~ IsSome(found)
                   THEN OpThrow(DeployCatch(UserError(
                            << "Template not found: ", opreq.templateId >>)))
                   ELSE OpIssue([ NoArgs EXCEPT
                            !.op = "deployTemplate",
                            !.environmentId = opreq.environmentId,
                            !.projectId = opreq.projectId,
                            !.config = found[1].services,
                            !.templateId = opreq.templateId,
                            !.teamId = opreq.teamId ], "deploy:deploy")
    /\ UNCHANGED OpFrame

\* the deploy call is answered: return its response, or wrap its failure
DeployReturn ==
    /\ OpResumed("deploy:deploy")
    /\ IF resp.status = "throw"
       THEN OpThrow(DeployCatch(ClientError("deployTemplate")))
       ELSE OpReturn(resp.id)
    /\ template' = template
    /\ UNCHANGED OpFrame

\* the templates of the catalogs both resolving operations are run on
ResolveTemplates ==
    [ id : {"tpl"}, name : {"PostgreSQL"}, category : Categories,
      services : { << >>, << FillerSlot >>,
                   << [ FillerSlot EXCEPT !.variables = Some(<<
                          [ name |-> "PGDATA", defaultValue |-> "/var/lib/pg" ] >>) ] >> } ]

\* an empty catalog, and catalogs that list the template after another one
ResolveCatalogs == { << >>, << Redis >> } \cup { << Redis, t >> : t \in ResolveTemplates }

DeployRequests ==
    [ op : {"deployTemplate"}, projectId : {"proj"}, templateId : {"tpl", "nope"},
      environmentId : {"env1"}, serviceId : {Absent},
      teamId : { Absent, Some("team") }, searchQuery : {Absent},
      workflowId : {""}, variables : { << >> } ]

\* one resolving operation is requested: a provisioning or a deploy
InitResolve ==
    /\ InitNoServer
    /\ race = << >>
    /\ writes = << >>
    /\ pc = "idle"
    /\ pending = {}
    /\ resp = NoResp
    /\ trace = << >>
    /\ acked = << >>
    /\ result = NoResult
    /\ remote = EmptyRemote
    /\ catalog \in ResolveCatalogs
    /\ \/ req \in Requests /\ opreq = NoOperation
       \/ req = NoRequest /\ opreq \in DeployRequests
    /\ matches = << >>
    /\ buildLogs = << >>
    /\ template = Absent
    /\ service = ""
    /\ creq = NoCopy
    /\ sourceVars = << >>
    /\ varsToSet = << >>
    /\ before = {}

NextResolve ==
    \/ NextProv
    \/ DeployStart
    \/ DeployResolve
    \/ DeployReturn

SpecResolve == InitResolve /\ [][NextResolve]_vars

-----------------------------------------------------------------------------
(* Resolving an identifier the catalog does not have *)

\* the identifier the running operation resolves
ResolvedId == IF opreq.op = "deployTemplate" THEN opreq.templateId ELSE req.id

\* no template of the catalog has that identifier
NoSuchTemplate == \A i \in 1..Len(catalog) : catalog[i].id # ResolvedId

\* C15: when no template of the fetched catalog has the requested
\* identifier, neither operation issues any call but the catalog fetch (no
\* deploy, no createService, nothing is changed on the platform), and once
\* the catalog has been fetched the operation has failed with the lookup's
\* own error: 'Template not found: <id>' from deployTemplate, 'Unsupported
\* database' from createDatabaseFromTemplate.
C15_UnknownIdNoMutation ==
    NoSuchTemplate =>
        /\ \A i \in 1..Len(trace) : trace[i].op = "listTemplates"
        /\ Len(trace) <= 1
        /\ remote = EmptyRemote
        /\ pc # "done"
        /\ (Acked("listTemplates") /\ pending = {} /\ resp.status = "none") =>
               /\ pc = "failed"
               /\ result.error =
                      IF opreq.op = "deployTemplate"
                      THEN << << "Template not found: ", opreq.templateId >> >>
                      ELSE << << "Unsupported database" >> >>

\* deployTemplate failed on an identifier a non-empty catalog does not have
C15_Witness ==
    /\ NoSuchTemplate
    /\ opreq.op = "deployTemplate"
    /\ Len(catalog) > 0
    /\ pc = "failed"
    /\ Acked("listTemplates")

\* createDatabaseFromTemplate failed on such an identifier
C15_WitnessDatabase ==
    /\ NoSuchTemplate
    /\ req.id # ""
    /\ Len(catalog) > 0
    /\ pc = "failed"
    /\ Acked("listTemplates")

\* a deploy that went through, for a template of any category
C15_WitnessDeployed ==
    /\ opreq.op = "deployTemplate"
    /\ pc = "done"
    /\ Cardinality(remote.workflows) = 1

-----------------------------------------------------------------------------
(* DatabaseService.listDatabaseTypes and TemplatesService.listTemplates *)

MaxCatalog == 2

Uncategorized == << "U","n","c","a","t","e","g","o","r","i","z","e","d" >>

\* the property key JS makes of an undefined category
UndefinedKey == << "u","n","d","e","f","i","n","e","d" >>

ImageSlot == [ FillerSlot EXCEPT !.image = Some("postgres:16") ]

\* the slot lists of the listed templates: none, one with an image, one
\* without, one with an empty image, and an image-less slot before another
ListedServices ==
    { << >>, << ImageSlot >>,
      << [ ImageSlot EXCEPT !.image = Absent ] >>,
      << [ ImageSlot EXCEPT !.image = Some("") ] >>,
      << [ ImageSlot EXCEPT !.image = Absent ], FillerSlot >> }

ListedCategories == Categories \cup { Some(<< >>) }

TemplateIds == << "t1", "t2", "t3", "t4" >>

\* the catalogs: up to MaxCatalog templates, the i-th with the i-th id
ListedCatalogs ==
    UNION { { [ i \in 1..n |-> [ id |-> TemplateIds[i], name |-> "Template",
                                 category |-> c[i], services |-> v[i] ] ] :
                c \in [ 1..n -> ListedCategories ], v \in [ 1..n -> ListedServices ] } :
            n \in 0..MaxCatalog }

ListRequests ==
    { [ NoOperation EXCEPT !.op = "listDatabaseTypes" ] } \cup
    { [ NoOperation EXCEPT !.op = "listTemplates", !.searchQuery = q ] :
          q \in { Absent, Some(<< >>), Some(<< "p","g" >>) } }

\* a test that looks for an image in any slot
FirstSlotHasImage_AnySlot(t) ==
    \E i \in 1..Len(t.services) : Truthy(t.services[i].image)

\* services.length > 0 and the first service has source.image
FirstSlotHasImage(t) ==
    /\ Len(t.services) > 0
    /\ Truthy(t.services[1].image)

\* template.category || 'Uncategorized'
DatabaseKey(t) == IF NonEmpty(t.category) THEN t.category[1] ELSE Uncategorized

\* the key of acc[template.category]
CategoryKey(t) == IF IsSome(t.category) THEN t.category[1] ELSE UndefinedKey

RECURSIVE Grouped(_, _)
\* the reduce: each template appended to the bucket of its key, a bucket
\* being created when its first template arrives
Grouped(items, keys) ==
    IF Len(items) = 0 THEN << >>
    ELSE LET n == Len(items)
             acc == Grouped(SubSeq(items, 1, n - 1), SubSeq(keys, 1, n - 1))
         IN  IF keys[n] \in DOMAIN acc
             THEN [ acc EXCEPT ![keys[n]] = Append(@, items[n]) ]
             ELSE [ k \in DOMAIN acc \cup { keys[n] } |->
                      IF k = keys[n] THEN << items[n] >> ELSE acc[k] ]

\* listDatabaseTypes' filter and reduce
CategorizedDatabases(templates) ==
    LET kept == SelectSeq(templates,
                    LAMBDA t : IsDatabaseCategory(t.category) /\ FirstSlotHasImage(t))
    IN  Grouped(kept, [ i \in 1..Len(kept) |-> DatabaseKey(kept[i]) ])

\* listTemplates' reduce
CategorizedTemplates(templates) ==
    Grouped(templates, [ i \in 1..Len(templates) |-> CategoryKey(templates[i]) ])

\* what fuse.search(query) may return: templates of the catalog, each at
\* most once, in the matcher's order
SearchResults(templates) ==
    { m \in UNION { [ 1..n -> 1..Len(templates) ] : n \in 0..Len(templates) } :
          \A i, j \in 1..Len(m) : i # j => m[i] # m[j] }

ListFrame == << catalog, req, template, service, remote, acked, creq, sourceVars,
                varsToSet, before, srvVars, raceVars, opVars >>

\* await this.client.templates.listTemplates(), from either operation
ListStart ==
    /\ pc = "idle"
    /\ opreq.op \in { "listDatabaseTypes", "listTemplates" }
    /\ OpIssue([ NoArgs EXCEPT !.op = "listTemplates" ],
               IF opreq.op = "listDatabaseTypes" THEN "types:templates"
               ELSE "list:templates")
    /\ UNCHANGED ListFrame

\* listDatabaseTypes after the fetch
ListDatabaseTypesReturn ==
    /\ OpResumed("types:templates")
    /\ IF resp.status = "throw"
       THEN OpThrow(Wrap("Error listing database types", ClientError("listTemplates")))
       ELSE OpReturn(CategorizedDatabases(resp.templates))
    /\ UNCHANGED ListFrame

\* a listTemplates that treats a search without results as a failure
ListTemplatesReturn_ThrowsOnNoMatch ==
    /\ OpResumed("list:templates")
    /\ IF resp.status = "throw"
       THEN /\ OpThrow(Wrap("Error listing templates", ClientError("listTemplates")))
            /\ matches' = matches
       ELSE IF NonEmpty(opreq.searchQuery)
       THEN \E m \in SearchResults(resp.templates) :
                /\ matches' = [ i \in 1..Len(m) |-> resp.templates[m[i]] ]
                /\ IF Len(m) = 0
                   THEN OpThrow(Wrap("Error listing templates",
                                     [ user |-> FALSE,
                                       chain |-> << << "No templates found" >> >> ]))
                   ELSE OpReturn(CategorizedTemplates(matches'))
       ELSE /\ OpReturn(CategorizedTemplates(resp.templates))
            /\ matches' = matches
    /\ UNCHANGED << catalog, req, template, service, remote, acked, creq,
                    sourceVars, varsToSet, before, srvVars, raceVars, opreq,
                    buildLogs >>

\* listTemplates after the fetch: when a query is given the fetched list is
\* replaced by the matcher's results; what is left is grouped
ListTemplatesReturn ==
    /\ OpResumed("list:templates")
    /\ IF resp.status = "throw"
       THEN /\ OpThrow(Wrap("Error listing templates", ClientError("listTemplates")))
            /\ matches' = matches
       ELSE IF NonEmpty(opreq.searchQuery)
       THEN \E m \in SearchResults(resp.templates) :
                /\ matches' = [ i \in 1..Len(m) |-> resp.templates[m[i]] ]
                /\ OpReturn(CategorizedTemplates(matches'))
       ELSE /\ OpReturn(CategorizedTemplates(resp.templates))
            /\ matches' = matches
    /\ UNCHANGED << catalog, req, template, service, remote, acked, creq,
                    sourceVars, varsToSet, before, srvVars, raceVars, opreq,
                    buildLogs >>

InitList ==
    /\ InitNoServer
    /\ race = << >>
    /\ writes = << >>
    /\ pc = "idle"
    /\ pending = {}
    /\ resp = NoResp
    /\ trace = << >>
    /\ acked = << >>
    /\ result = NoResult
    /\ remote = EmptyRemote
    /\ catalog \in ListedCatalogs
    /\ opreq \in ListRequests
    /\ matches = << >>
    /\ buildLogs = << >>
    /\ req = NoRequest
    /\ template = Absent
    /\ service = ""
    /\ creq = NoCopy
    /\ sourceVars = << >>
    /\ varsToSet = << >>
    /\ before = {}

NextList ==
    \/ ListStart
    \/ ListDatabaseTypesReturn
    \/ ListTemplatesReturn
    \/ Respond

SpecList == InitList /\ [][NextList]_vars

-----------------------------------------------------------------------------
(* What the listings return *)

\* the categories of the catalogs that contain 'storage' or 'database',
\* whatever the case of their letters
MatchingCategories == { CatStorage, CatDatabases }

\* how many times template t is listed in bucket `key` of `buckets`
TimesIn(buckets, key, t) ==
    IF key \in DOMAIN buckets
    THEN Cardinality({ i \in 1..Len(buckets[key]) : buckets[key][i] = t })
    ELSE 0

\* the buckets other than `key` do not list t
OnlyIn(buckets, key, t) ==
    \A k \in DOMAIN buckets \ { key } : TimesIn(buckets, k, t) = 0

\* no bucket lists t
NotListed(buckets, t) ==
    \A k \in DOMAIN buckets : TimesIn(buckets, k, t) = 0

\* every bucket is non-empty and lists templates of the catalog only
BucketsOfCatalog(buckets) ==
    \A k \in DOMAIN buckets :
        /\ Len(buckets[k]) > 0
        /\ \A i \in 1..Len(buckets[k]) :
               \E j \in 1..Len(catalog) : catalog[j] = buckets[k][i]

\* the operation failed because the catalog fetch was rejected
FetchFailed(text) ==
    /\ acked = << >>
    /\ result.error = << << text >>, << "remote failure: ", "listTemplates" >> >>

\* C16: listDatabaseTypes returns, once each and in the bucket of its
\* category, exactly the templates whose category contains 'storage' or
\* 'database' in any case and whose first service slot has a non-empty
\* image; a matching template without slots or with an image-less first slot
\* is left out, and the operation fails only when the catalog fetch fails.
C16_DatabaseTypesListed ==
    opreq.op = "listDatabaseTypes" =>
        /\ pc = "failed" => FetchFailed("Error listing database types")
        /\ pc = "done" =>
               /\ BucketsOfCatalog(result.value)
               /\ \A i \in 1..Len(catalog) :
                      LET t == catalog[i]
                      IN  IF /\ IsSome(t.category)
                             /\ t.category[1] \in MatchingCategories
                             /\ Len(t.services) > 0
                             /\ IsSome(t.services[1].image)
                             /\ t.services[1].image[1] # ""
                          THEN /\ TimesIn(result.value, t.category[1], t) = 1
                               /\ OnlyIn(result.value, t.category[1], t)
                          ELSE NotListed(result.value, t)

\* a listing that kept one database template and silently left out another
\* whose first slot has no image although a later slot has one
C16_Witness ==
    /\ opreq.op = "listDatabaseTypes"
    /\ pc = "done"
    /\ Len(catalog) = 2
    /\ catalog[1].category = Some(CatDatabases)
    /\ Len(catalog[1].services) = 2
    /\ catalog[2].category = Some(CatStorage)
    /\ DOMAIN result.value = { CatStorage }
    /\ result.value[CatStorage] = << catalog[2] >>

\* listTemplates was called without a usable query and has returned
ListedAll ==
    /\ opreq.op = "listTemplates"
    /\ ~ NonEmpty(opreq.searchQuery)
    /\ pc = "done"

\* C17: listTemplates without a query returns every fetched template exactly
\* once, in the bucket named by its category, a template without category
\* being in the bucket named "Uncategorized".
C17_GroupedByCategory ==
    ListedAll =>
        /\ BucketsOfCatalog(result.value)
        /\ \A i \in 1..Len(catalog) :
               LET t == catalog[i]
                   key == IF IsSome(t.category) THEN t.category[1] ELSE Uncategorized
               IN  /\ TimesIn(result.value, key, t) = 1
                   /\ OnlyIn(result.value, key, t)

\* the part of C17 that holds: every fetched template is listed exactly
\* once, a template that has a category under that category, and no bucket
\* is ever named "Uncategorized"
C17_GroupedByCategoryField ==
    ListedAll =>
        /\ BucketsOfCatalog(result.value)
        /\ Uncategorized \notin DOMAIN result.value
        /\ \A i \in 1..Len(catalog) :
               LET t == catalog[i]
               IN  /\ \E k \in DOMAIN result.value :
                          /\ TimesIn(result.value, k, t) = 1
                          /\ OnlyIn(result.value, k, t)
                   /\ IsSome(t.category) =>
                          TimesIn(result.value, t.category[1], t) = 1

\* a full listing of a catalog that holds a template without category
C17_Witness ==
    /\ ListedAll
    /\ \E i \in 1..Len(catalog) : ~ IsSome(catalog[i].category)
    /\ \E i \in 1..Len(catalog) : IsSome(catalog[i].category)

\* listTemplates was called with a query and the catalog fetch succeeded
Searched ==
    /\ opreq.op = "listTemplates"
    /\ NonEmpty(opreq.searchQuery)
    /\ pc \in { "done", "failed" }
    /\ ~ FetchFailed("Error listing templates")

\* C18: a template search whose matcher returns no template returns a
\* result without any bucket and does not fail, provided the catalog fetch
\* succeeded.
C18_NoMatchReturnsEmpty ==
    /\ Searched => pc = "done" /\ result.status = "ok"
    /\ Searched /\ matches = << >> => DOMAIN result.value = {}
    /\ opreq.op = "listTemplates" /\ pc = "failed" =>
           FetchFailed("Error listing templates")

\* a search over a catalog that holds templates found none of them
C18_Witness ==
    /\ Searched
    /\ Len(catalog) > 0
    /\ matches = << >>
    /\ pc = "done"

\* a search found a template, which the result lists
C18_WitnessMatch ==
    /\ Searched
    /\ Len(matches) > 0
    /\ DOMAIN result.value # {}

-----------------------------------------------------------------------------
(* getWorkflowStatus *)

\* the error texts a workflow may report: none, an empty one, a real one
WorkflowErrors == { Absent, Some(""), Some("boom") }

\* the workflows the platform runs, as it reports them
Workflows ==
    { { [ id |-> "wf-1", status |-> s1, error |-> e1 ],
        [ id |-> "wf-2", status |-> s2, error |-> e2 ] } :
          s1 \in { "DEPLOYING", "COMPLETE" }, s2 \in { "COMPLETE" },
          e1 \in WorkflowErrors, e2 \in WorkflowErrors }

WorkflowRequests ==
    { [ NoOperation EXCEPT !.op = "getWorkflowStatus", !.workflowId = w ] :
          w \in { "wf-1", "wf-2" } }

\* await this.client.templates.getWorkflowStatus(workflowId)
WorkflowStart ==
    /\ pc = "idle"
    /\ opreq.op = "getWorkflowStatus"
    /\ OpIssue([ NoArgs EXCEPT !.op = "getWorkflowStatus",
                               !.workflowId = opreq.workflowId ],
               "workflow:status")
    /\ UNCHANGED ListFrame

\* a getWorkflowStatus that returns whatever the platform reported
WorkflowReturn_IgnoresError ==
    /\ OpResumed("workflow:status")
    /\ IF resp.status = "throw"
       THEN OpThrow(Wrap("Error getting workflow status",
                         ClientError("getWorkflowStatus")))
       ELSE IF ~ IsSome(resp.workflow)
       THEN OpThrow(Wrap("Error getting workflow status",
                         [ user |-> FALSE,
                           chain |-> << << "TypeError: reading 'error'" >> >> ]))
       ELSE OpReturn(resp.workflow[1])
    /\ UNCHANGED ListFrame

\* getWorkflowStatus once the platform answered: a truthy error field is
\* thrown as a UserError, which the catch lets through; any other error is
\* wrapped
WorkflowReturn ==
    /\ OpResumed("workflow:status")
    /\ IF resp.status = "throw"
       THEN OpThrow(Wrap("Error getting workflow status",
                         ClientError("getWorkflowStatus")))
       ELSE IF ~ IsSome(resp.workflow)
       THEN OpThrow(Wrap("Error getting workflow status",
                         [ user |-> FALSE,
                           chain |-> << << "TypeError: reading 'error'" >> >> ]))
       ELSE IF Truthy(resp.workflow[1].error)
       THEN OpThrow(UserError(<< "Error with workflow ", opreq.workflowId, ": ",
                                 resp.workflow[1].error[1] >>))
       ELSE OpReturn(resp.workflow[1])
    /\ UNCHANGED ListFrame

InitWorkflow ==
    /\ InitNoServer
    /\ race = << >>
    /\ writes = << >>
    /\ matches = << >>
    /\ buildLogs = << >>
    /\ pc = "idle"
    /\ pending = {}
    /\ resp = NoResp
    /\ trace = << >>
    /\ acked = << >>
    /\ result = NoResult
    /\ remote \in { [ EmptyRemote EXCEPT !.workflows = w ] : w \in Workflows }
    /\ catalog = << >>
    /\ opreq \in WorkflowRequests
    /\ req = NoRequest
    /\ template = Absent
    /\ service = ""
    /\ creq = NoCopy
    /\ sourceVars = << >>
    /\ varsToSet = << >>
    /\ before = {}

NextWorkflow ==
    \/ WorkflowStart
    \/ WorkflowReturn
    \/ Respond

SpecWorkflow == InitWorkflow /\ [][NextWorkflow]_vars

\* the workflow the request names, as the platform holds it
PolledWorkflow == WorkflowStatus(remote.workflows, opreq.workflowId)[1]

\* the platform answered the status request
StatusFetched ==
    /\ opreq.op = "getWorkflowStatus"
    /\ pc \in { "done", "failed" }
    /\ acked = << "getWorkflowStatus" >>
    /\ result.error # << << "Error getting workflow status" >>,
                          << "TypeError: reading 'error'" >> >>

\* C19: getWorkflowStatus fails with an error that contains the workflow's
\* reported error whenever the reported status has a non-empty error field,
\* and returns the status as reported only when it has none.
C19_WorkflowErrorSurfaced ==
    LET w == PolledWorkflow
    IN  /\ StatusFetched /\ Truthy(w.error) =>
               /\ pc = "failed"
               /\ result.error = << << "Error with workflow ", opreq.workflowId,
                                       ": ", w.error[1] >> >>
        /\ StatusFetched /\ ~ Truthy(w.error) =>
               /\ pc = "done"
               /\ result.value = w
        /\ opreq.op = "getWorkflowStatus" /\ pc = "done" =>
               /\ StatusFetched
               /\ ~ Truthy(w.error)
               /\ result.value = w

\* a workflow that reports an error was polled
C19_Witness ==
    /\ StatusFetched
    /\ Truthy(PolledWorkflow.error)
    /\ pc = "failed"

\* a workflow without error, and one with an empty error text, were polled
C19_WitnessReturned ==
    /\ StatusFetched
    /\ PolledWorkflow.error = Some("")
    /\ pc = "done"

-----------------------------------------------------------------------------
(* bulkUpsertVariables followed by listVariables *)

BulkRequests ==
    { [ NoOperation EXCEPT !.op = "bulkUpsertVariables", !.projectId = "proj",
                           !.environmentId = "envB", !.serviceId = s,
                           !.variables = m ] :
          s \in { "", "svc-1" }, m \in Maps(SourceValues) }

\* bulkUpsertVariables up to its await: the inputs are built and written
BulkStart ==
    /\ opreq.op = "bulkUpsertVariables"
    /\ pc \in { "idle", "done" }
    /\ Len(trace) < MaxApplications
    /\ OpIssue([ NoArgs EXCEPT !.op = "upsertVariables",
                               !.inputs = BulkInputs(opreq.projectId,
                                                     opreq.environmentId,
                                                     opreq.variables,
                                                     opreq.serviceId) ],
               "bulk:upsert")
    /\ UNCHANGED ListFrame

\* bulkUpsertVariables after the write: { updated: inputs.length }, or the
\* error wrapped
BulkReturn ==
    /\ OpResumed("bulk:upsert")
    /\ IF resp.status = "throw"
       THEN OpThrow(Wrap("Error updating variables", ClientError("upsertVariables")))
       ELSE OpReturn([ updated |-> Len(trace[Len(trace)].inputs) ])
    /\ UNCHANGED ListFrame

\* listVariables on the scope just written, up to its await
ListVariablesStart ==
    /\ opreq.op = "bulkUpsertVariables"
    /\ pc = "done"
    /\ opreq' = [ opreq EXCEPT !.op = "listVariables" ]
    /\ OpIssue([ NoArgs EXCEPT !.op = "getVariables",
                               !.projectId = opreq.projectId,
                               !.environmentId = opreq.environmentId,
                               !.serviceId = opreq.serviceId ],
               "list:variables")
    /\ UNCHANGED << catalog, req, template, service, remote, acked, creq,
                    sourceVars, varsToSet, before, srvVars, raceVars, matches,
                    buildLogs >>

\* listVariables after the read: the variables as fetched, or the error wrapped
ListVariablesReturn ==
    /\ OpResumed("list:variables")
    /\ IF resp.status = "throw"
       THEN OpThrow(Wrap("Error listing variables", ClientError("getVariables")))
       ELSE OpReturn(resp.variables)
    /\ UNCHANGED ListFrame

InitBulk ==
    /\ InitNoServer
    /\ race = << >>
    /\ writes = << >>
    /\ matches = << >>
    /\ buildLogs = << >>
    /\ pc = "idle"
    /\ pending = {}
    /\ resp = NoResp
    /\ trace = << >>
    /\ acked = << >>
    /\ result = NoResult
    /\ opreq \in BulkRequests
    /\ \E b \in Maps(TargetValues) :
           remote = [ EmptyRemote EXCEPT !.variables =
               Stored(b, "proj", "envB", opreq.serviceId) \cup { Bystander } ]
    /\ before = remote.variables
    /\ catalog = << >>
    /\ req = NoRequest
    /\ template = Absent
    /\ service = ""
    /\ creq = NoCopy
    /\ sourceVars = << >>
    /\ varsToSet = << >>

NextBulk ==
    \/ BulkStart
    \/ BulkReturn
    \/ ListVariablesStart
    \/ ListVariablesReturn
    \/ Respond

SpecBulk == InitBulk /\ [][NextBulk]_vars

\* the scope the entries are written to and listed from, as a map
WrittenScope(variables) ==
    GetVariables(variables, opreq.projectId, opreq.environmentId, opreq.serviceId)

\* the platform's variables once the entries are upserted: the written
\* names hold the written values, everything else is as it was
Upserted ==
    { v \in before : ~ ( /\ v.projectId = opreq.projectId
                         /\ v.environmentId = opreq.environmentId
                         /\ v.serviceId = opreq.serviceId
                         /\ v.name \in DOMAIN opreq.variables ) }
    \cup Stored(opreq.variables, opreq.projectId, opreq.environmentId,
                opreq.serviceId)

\* the list that followed the write has returned
ListedAfterBulk == opreq.op = "listVariables" /\ pc = "done"

\* C20 as stated: bulkSet followed immediately by list on the same scope
\* returns exactly the written entries, and a second application of the
\* same entries leaves the scope as it was after the first.
C20_ListReturnsWritten ==
    /\ ListedAfterBulk => result.value = opreq.variables
    /\ Acked("upsertVariables") => remote.variables = Upserted

\* C20, amended: bulkSet followed immediately by list on the same scope
\* returns every written entry with its written value, together with the
\* entries the scope already held under other names, unchanged; and a second
\* application of the same entries leaves the platform's variables exactly
\* as after the first.
C20_ListReturnsUpserted ==
    /\ ListedAfterBulk =>
           LET was == WrittenScope(before)
           IN  /\ DOMAIN result.value = DOMAIN opreq.variables \cup DOMAIN was
               /\ \A k \in DOMAIN opreq.variables :
                      result.value[k] = opreq.variables[k]
               /\ \A k \in DOMAIN was \ DOMAIN opreq.variables :
                      result.value[k] = was[k]
    /\ Acked("upsertVariables") => remote.variables = Upserted
    /\ pc = "done" /\ opreq.op = "bulkUpsertVariables" =>
           result.value = [ updated |-> Cardinality(DOMAIN opreq.variables) ]

\* entries were written twice over a scope that held another name, and the
\* list returned
C20_Witness ==
    /\ ListedAfterBulk
    /\ Len(acked) = 3
    /\ DOMAIN opreq.variables # {}
    /\ DOMAIN WrittenScope(before) \ DOMAIN opreq.variables # {}
    /\ \E k \in DOMAIN opreq.variables :
           k \in DOMAIN WrittenScope(before) /\ WrittenScope(before)[k] # opreq.variables[k]

\* entries were written to an empty scope and the list returned them alone
C20_WitnessEmptyScope ==
    /\ ListedAfterBulk
    /\ DOMAIN opreq.variables # {}
    /\ DOMAIN WrittenScope(before) = {}
    /\ result.value = opreq.variables

-----------------------------------------------------------------------------
(* How a failed remote call reaches the caller of copyVariables *)

\* the remote call the failed copy was stopped by
FailedCall == trace[Len(trace)]

\* C21: every failure of a remote call reaches the caller as exactly one
\* user-facing error whose cause is the error the remote call raised: the
\* failure is never swallowed, a failed operation never returns a success
\* result, and the original error is not under a second wrapper.
C21_SingleWrapper ==
    /\ pc = "done" => Len(acked) = Len(trace) /\ result.status = "ok"
    /\ pc = "failed" =>
           /\ result.status = "error"
           /\ result.error = << << "Error copying variables" >> >>
                                 \o RemoteError(FailedCall.op)

\* the part of C21 that holds: a failed remote call always fails the copy,
\* the outermost message is copyVariables' own and the innermost is the
\* remote call's error; between them stands bulkUpsertVariables' message
\* when, and only when, the bulk write is the call that failed
C21_FailureSurfaced ==
    /\ pc = "done" => Len(acked) = Len(trace) /\ result.status = "ok"
    /\ pc = "failed" =>
           /\ result.status = "error"
           /\ Len(acked) = Len(trace) - 1
           /\ result.error =
                  IF FailedCall.op = "upsertVariables"
                  THEN << << "Error copying variables" >>,
                          << "Error updating variables" >> >>
                          \o RemoteError("upsertVariables")
                  ELSE << << "Error copying variables" >> >>
                          \o RemoteError("getVariables")

\* the bulk write of a copy was rejected
C21_Witness ==
    /\ pc = "failed"
    /\ Len(trace) = 3
    /\ FailedCall.op = "upsertVariables"
    /\ Len(result.error) = 3

-----------------------------------------------------------------------------
(* The operations that pause: restartService, triggerDeployment,            *)
(* getDeploymentLogs, healthCheckDeployment                                 *)

\* setTimeout(resolve, 5000)
PauseMs == 5000

\* getDeploymentLogs' default limit
DefaultLogLimit == 100

\* await new Promise((resolve) => setTimeout(resolve, 5000)), as it is
\* recorded among the calls
Pause == [ NoArgs EXCEPT !.op = "setTimeout", !.ms = PauseMs ]

DelayRequests ==
    { [ NoOperation EXCEPT !.op = "restartService", !.serviceId = Some(s),
                           !.environmentId = "env1" ] : s \in { "svc-1", "svc-2" } }
    \cup
    { [ NoOperation EXCEPT !.op = "triggerDeployment", !.projectId = "proj",
                           !.serviceId = Some("svc-1"), !.environmentId = "env1",
                           !.commitSha = c ] : c \in { Absent, Some("abc123") } }
    \cup
    { [ NoOperation EXCEPT !.op = "getDeploymentLogs", !.deploymentId = d,
                           !.limit = l ] :
          d \in { "dep-1", "dep-2" }, l \in { Absent, Some(1) } }
    \cup
    { [ NoOperation EXCEPT !.op = "healthCheckDeployment", !.deploymentId = d ] :
          d \in { "dep-1", "dep-2" } }

\* the operation suspends on the timer
OpPause(label) ==
    /\ pc' = label
    /\ trace' = Append(trace, Pause)
    /\ resp' = NoResp
    /\ UNCHANGED << pending, result >>

\* each operation up to its first await: restartService issues the restart,
\* the three others start the timer
DelayStart ==
    /\ pc = "idle"
    /\ opreq.op \in { "restartService", "triggerDeployment", "getDeploymentLogs",
                      "healthCheckDeployment" }
    /\ CASE opreq.op = "restartService" ->
                OpIssue([ NoArgs EXCEPT !.op = "restartService",
                                        !.serviceId = opreq.serviceId[1],
                                        !.environmentId = opreq.environmentId ],
                        "restart:call")
         [] opreq.op = "triggerDeployment" -> OpPause("trigger:pause")
         [] opreq.op = "getDeploymentLogs" -> OpPause("logs:pause")
         [] opreq.op = "healthCheckDeployment" -> OpPause("health:pause")
    /\ UNCHANGED ListFrame

\* restartService once the restart is answered: the timer is started
RestartPause ==
    /\ OpResumed("restart:call")
    /\ IF resp.status = "throw"
       THEN OpThrow(Wrap("Error restarting service", ClientError("restartService")))
       ELSE OpPause("restart:pause")
    /\ UNCHANGED ListFrame

\* restartService once the timer fired
RestartReturn ==
    /\ pc = "restart:pause"
    /\ OpReturn([ success |-> TRUE ])
    /\ UNCHANGED ListFrame

\* triggerDeployment once the timer fired: the deployment is triggered
TriggerCall ==
    /\ pc = "trigger:pause"
    /\ OpIssue([ NoArgs EXCEPT !.op = "triggerDeployment",
                               !.serviceId = opreq.serviceId[1],
                               !.environmentId = opreq.environmentId,
                               !.commitSha = opreq.commitSha ],
               "trigger:call")
    /\ UNCHANGED ListFrame

\* triggerDeployment once the trigger is answered
TriggerReturn ==
    /\ OpResumed("trigger:call")
    /\ IF resp.status = "throw"
       THEN OpThrow(Wrap("Error triggering deployment",
                         ClientError("triggerDeployment")))
       ELSE OpReturn([ deploymentId |-> resp.data ])
    /\ UNCHANGED ListFrame

\* getDeploymentLogs once the timer fired: the build logs are requested
LogsBuild ==
    /\ pc = "logs:pause"
    /\ OpIssue([ NoArgs EXCEPT !.op = "getBuildLogs",
                               !.deploymentId = opreq.deploymentId,
                               !.limit = IF IsSome(opreq.limit) THEN opreq.limit[1]
                                         ELSE DefaultLogLimit ],
               "logs:build")
    /\ UNCHANGED ListFrame

\* getDeploymentLogs once the build logs are answered: the deployment logs
\* are requested
LogsDeployment ==
    /\ OpResumed("logs:build")
    /\ IF resp.status = "throw"
       THEN /\ OpThrow(Wrap("Error fetching logs", ClientError("getBuildLogs")))
            /\ buildLogs' = buildLogs
       ELSE /\ buildLogs' = resp.data
            /\ OpIssue([ NoArgs EXCEPT !.op = "getDeploymentLogs",
                                       !.deploymentId = opreq.deploymentId,
                                       !.limit = IF IsSome(opreq.limit)
                                                 THEN opreq.limit[1]
                                                 ELSE DefaultLogLimit ],
                       "logs:deployment")
    /\ UNCHANGED << catalog, req, template, service, remote, acked, creq,
                    sourceVars, varsToSet, before, srvVars, raceVars, opreq,
                    matches >>

\* the logs of one kind, each with its type
Typed(logs, type) ==
    [ i \in 1..Len(logs) |-> [ message |-> logs[i].message, type |-> type ] ]

\* getDeploymentLogs once the deployment logs are answered: both lists are
\* merged; a list that is missing makes `.map` throw
LogsReturn ==
    /\ OpResumed("logs:deployment")
    /\ IF resp.status = "throw"
       THEN OpThrow(Wrap("Error fetching logs", ClientError("getDeploymentLogs")))
       ELSE IF ~ IsSome(buildLogs) \/ ~ IsSome(resp.data)
       THEN OpThrow(Wrap("Error fetching logs",
                         [ user |-> FALSE,
                           chain |-> << << "TypeError: reading 'map'" >> >> ]))
       ELSE OpReturn(Typed(buildLogs[1], "build")
                     \o Typed(resp.data[1], "deployment"))
    /\ UNCHANGED ListFrame

\* healthCheckDeployment once the timer fired: the status is requested
HealthCall ==
    /\ pc = "health:pause"
    /\ OpIssue([ NoArgs EXCEPT !.op = "healthCheckDeployment",
                               !.deploymentId = opreq.deploymentId ],
               "health:call")
    /\ UNCHANGED ListFrame

\* a health check that waits and asks again until the deployment succeeded
HealthReturn_Polls ==
    /\ OpResumed("health:call")
    /\ IF resp.status = "throw"
       THEN OpThrow(Wrap("Error checking deployment health",
                         ClientError("healthCheckDeployment")))
       ELSE IF resp.data # Some("SUCCESS")
       THEN OpPause("health:pause")
       ELSE OpReturn([ status |-> resp.data ])
    /\ UNCHANGED ListFrame

\* healthCheckDeployment once the status is answered
HealthReturn ==
    /\ OpResumed("health:call")
    /\ IF resp.status = "throw"
       THEN OpThrow(Wrap("Error checking deployment health",
                         ClientError("healthCheckDeployment")))
       ELSE OpReturn([ status |-> resp.data ])
    /\ UNCHANGED ListFrame

InitDelay ==
    /\ InitNoServer
    /\ race = << >>
    /\ writes = << >>
    /\ matches = << >>
    /\ buildLogs = Absent
    /\ pc = "idle"
    /\ pending = {}
    /\ resp = NoResp
    /\ trace = << >>
    /\ acked = << >>
    /\ result = NoResult
    /\ remote = EmptyRemote
    /\ catalog = << >>
    /\ opreq \in DelayRequests
    /\ req = NoRequest
    /\ template = Absent
    /\ service = ""
    /\ creq = NoCopy
    /\ sourceVars = << >>
    /\ varsToSet = << >>
    /\ before = {}

NextDelay ==
    \/ DelayStart
    \/ RestartPause
    \/ RestartReturn
    \/ TriggerCall
    \/ TriggerReturn
    \/ LogsBuild
    \/ LogsDeployment
    \/ LogsReturn
    \/ HealthCall
    \/ HealthReturn
    \/ Respond

SpecDelay == InitDelay /\ [][NextDelay]_vars

-----------------------------------------------------------------------------
(* Where the pauses stand *)

\* the positions of the trace that hold a pause
Pauses == { i \in 1..Len(trace) : trace[i].op = "setTimeout" }

\* the positions of the trace that hold a remote call named op
CallsOf(op) == { i \in 1..Len(trace) : trace[i].op = op }

\* the remote calls that change the platform
Mutations == { "restartService", "triggerDeployment" }

\* the invocation is over
Over == pc \in { "done", "failed" }

\* no remote call is issued twice
EachCallOnce ==
    \A i, j \in 1..Len(trace) :
        trace[i].op = trace[j].op /\ trace[i].op # "setTimeout" => i = j

\* C22 as stated: the pause belongs to read operations only, each
\* invocation pauses exactly once, the pause precedes a single query, each
\* remote call is issued at most once, and no mutation is held back by the
\* pause.
C22_SinglePauseBeforeQuery ==
    /\ Over => Cardinality(Pauses) = 1
    /\ Cardinality(Pauses) <= 1
    /\ EachCallOnce
    /\ pc = "done" =>
           /\ Len(trace) = 2
           /\ trace[1] = Pause
           /\ trace[2].op \notin Mutations
    /\ \A i \in Pauses : \A j \in 1..Len(trace) :
           trace[j].op \in Mutations => j < i

\* C22, amended: a pause is a single timer of 5000 ms and never repeats;
\* triggerDeployment, getDeploymentLogs and healthCheckDeployment pause
\* once, before their first remote call (the two log queries of
\* getDeploymentLogs follow the one pause), restartService pauses once after
\* its restart call was answered and not at all when it was rejected; each
\* remote call is issued at most once; the trigger of triggerDeployment is
\* held back by the pause, the restart of restartService is not.
C22_SinglePause ==
    /\ Cardinality(Pauses) <= 1
    /\ \A i \in Pauses : trace[i].ms = PauseMs
    /\ EachCallOnce
    /\ opreq.op = "restartService" =>
           /\ Pauses \subseteq { 2 }
           /\ CallsOf("restartService") \subseteq { 1 }
           /\ Len(trace) <= 2
           /\ pc = "done" => Pauses = { 2 }
           /\ pc = "failed" => Pauses = {}
    /\ opreq.op = "triggerDeployment" =>
           /\ Pauses \subseteq { 1 }
           /\ CallsOf("triggerDeployment") \subseteq { 2 }
           /\ Len(trace) <= 2
           /\ Over => Pauses = { 1 }
    /\ opreq.op = "healthCheckDeployment" =>
           /\ Pauses \subseteq { 1 }
           /\ CallsOf("healthCheckDeployment") \subseteq { 2 }
           /\ Len(trace) <= 2
           /\ Over => Pauses = { 1 }
    /\ opreq.op = "getDeploymentLogs" =>
           /\ Pauses \subseteq { 1 }
           /\ CallsOf("getBuildLogs") \subseteq { 2 }
           /\ CallsOf("getDeploymentLogs") \subseteq { 3 }
           /\ Len(trace) <= 3
           /\ Over => Pauses = { 1 }
           /\ pc = "done" => Len(trace) = 3

\* a health check paused, asked once and returned what it was told
C22_Witness ==
    /\ opreq.op = "healthCheckDeployment"
    /\ pc = "done"
    /\ trace[1] = Pause
    /\ result.value = [ status |-> Some("CRASHED") ]

\* a deployment was triggered after the pause
C22_WitnessTrigger ==
    /\ opreq.op = "triggerDeployment"
    /\ pc = "done"
    /\ trace[1] = Pause
    /\ Cardinality(remote.deployments) = 1

\* a restart was rejected: the invocation is over without a pause
C22_WitnessNoPause ==
    /\ opreq.op = "restartService"
    /\ pc = "failed"
    /\ Pauses = {}

\* both kinds of logs were fetched after one pause
C22_WitnessLogs ==
    /\ opreq.op = "getDeploymentLogs"
    /\ pc = "done"
    /\ Len(result.value) = 3

-----------------------------------------------------------------------------
(* The steps of createDatabaseFromTemplate, one by one (SpecProv) *)

\* the call named op, once issued
TheCall(op) == trace[CHOOSE i \in 1..Len(trace) : trace[i].op = op]

\* the continuation that runs when the awaited call `op` is answered with
\* nothing stops the run with `message` and issues nothing
StopsOnNothing(op, message) ==
    Resumed(op) /\ resp.status = "null" =>
        /\ pc' = "failed"
        /\ result'.error = << message >>
        /\ trace' = trace
        /\ remote' = remote

\* the continuation that runs when the awaited call `op` is rejected stops
\* the run and issues nothing
StopsOnRejection(op) ==
    Resumed(op) /\ resp.status = "throw" =>
        /\ pc' = "failed"
        /\ result'.error = << << "Error creating database" >> >> \o RemoteError(op)
        /\ trace' = trace
        /\ remote' = remote

\* the region update, once issued, follows a lookup that found the
\* instance and asks for the caller's region for the new service
RegionUpdateAsRequested ==
    /\ Issued("updateServiceInstance") =>
           /\ Acked("getServiceInstance")
           /\ TheCall("updateServiceInstance").serviceId = service
           /\ TheCall("updateServiceInstance").environmentId = req.environmentId
           /\ TheCall("updateServiceInstance").region = req.region
           /\ service = NewServiceId
    /\ remote.regions # {} <=> Acked("updateServiceInstance")
    /\ remote.regions \subseteq
           { [ serviceId |-> service, environmentId |-> req.environmentId,
               region |-> req.region ] }
    /\ Issued("tcpProxyCreate") \/ Issued("createVolume") =>
           Acked("updateServiceInstance")

\* C23: when the lookup of the new service's instance finds none, the run
\* fails with 'Service instance not found.' and issues no region update,
\* proxy or volume call; otherwise the region update is applied to the new
\* service in the target environment with the caller's region, and a
\* rejected region update stops the run before the proxy and the volume.
C23_PlaceStep ==
    /\ []RegionUpdateAsRequested
    /\ [][ /\ StopsOnNothing("getServiceInstance",
                             << "Service instance not found." >>)
           /\ StopsOnRejection("getServiceInstance")
           /\ StopsOnRejection("updateServiceInstance")
           /\ Resumed("updateServiceInstance") /\ resp.status = "null" =>
                  pc' = "failed" /\ trace' = trace ]_vars

\* the lookup found no instance and the run stopped there
C23_Witness ==
    /\ pc = "failed"
    /\ FailedOp = "getServiceInstance"
    /\ result.error = << << "Service instance not found." >> >>

\* the region was set and the run went on
C23_WitnessRegion ==
    /\ Cardinality(remote.regions) = 1
    /\ Issued("tcpProxyCreate")

\* the slot the run provisions: the first one of the requested template
ProvisionedSlot == Requested[1].services[1]

\* the variable write a slot's descriptors call for
DeclaredInputs(slot) ==
    [ i \in 1..Len(slot.variables[1]) |->
        [ projectId |-> req.projectId, environmentId |-> req.environmentId,
          serviceId |-> NewServiceId, name |-> slot.variables[1][i].name,
          value |-> slot.variables[1][i].defaultValue ] ]

\* C24: the apply-variables step issues no variable write when the slot has
\* no variable descriptors, a declared but empty descriptor map included;
\* when descriptors exist, exactly one bulk write is issued, with every
\* declared name and its default value, for the new service in the target
\* environment.
C24_VariablesStep ==
    Acked("createService") /\ pc # "createService" =>
        LET slot == ProvisionedSlot
        IN  IF IsSome(slot.variables) /\ Len(slot.variables[1]) > 0
            THEN /\ Cardinality({ i \in 1..Len(trace) :
                                      trace[i].op = "upsertVariables" }) = 1
                 /\ TheCall("upsertVariables").inputs = DeclaredInputs(slot)
            ELSE ~ Issued("upsertVariables")

\* the part of C24 that holds: the step is skipped exactly when the slot
\* declares no descriptor map at all; a declared map, empty or not, gets
\* exactly one bulk write of every declared name with its default value
C24_VariablesStepWhenDeclared ==
    Acked("createService") /\ pc # "createService" =>
        LET slot == ProvisionedSlot
        IN  IF IsSome(slot.variables)
            THEN /\ Cardinality({ i \in 1..Len(trace) :
                                      trace[i].op = "upsertVariables" }) = 1
                 /\ TheCall("upsertVariables").inputs = DeclaredInputs(slot)
                 /\ trace[3].op = "upsertVariables"
            ELSE ~ Issued("upsertVariables")

\* a slot with an empty descriptor map was provisioned
C24_Witness ==
    /\ Acked("createService")
    /\ pc = "done"
    /\ ProvisionedSlot.variables = Some(<< >>)

\* C25: the proxy of the expose step binds the port of the slot's first
\* declared network descriptor, and 5432 when the slot declares none, an
\* empty map, or a first descriptor without a port; it is created for the
\* new service in the target environment.
C25_ProxyPort ==
    Issued("tcpProxyCreate") =>
        LET slot == ProvisionedSlot
            call == TheCall("tcpProxyCreate")
            port == IF /\ IsSome(slot.tcpProxies)
                       /\ Len(slot.tcpProxies[1]) > 0
                       /\ IsSome(slot.tcpProxies[1][1])
                    THEN slot.tcpProxies[1][1][1]
                    ELSE 5432
        IN  /\ call.applicationPort = port
            /\ call.serviceId = NewServiceId
            /\ call.environmentId = req.environmentId
            /\ Acked("tcpProxyCreate") =>
                   remote.proxies = { [ serviceId |-> NewServiceId,
                                        environmentId |-> req.environmentId,
                                        applicationPort |-> port ] }

\* a proxy was created on the declared port of a slot with two descriptors
C25_Witness ==
    /\ Acked("tcpProxyCreate")
    /\ IsSome(ProvisionedSlot.tcpProxies)
    /\ Len(ProvisionedSlot.tcpProxies[1]) = 2
    /\ TheCall("tcpProxyCreate").applicationPort = 3306

\* a proxy was created on 5432 for a first descriptor without a port
C25_WitnessDefault ==
    /\ Acked("tcpProxyCreate")
    /\ IsSome(ProvisionedSlot.tcpProxies)
    /\ Len(ProvisionedSlot.tcpProxies[1]) > 0
    /\ TheCall("tcpProxyCreate").applicationPort = 5432

\* C26: the volume of the attach-storage step is mounted at the mount path
\* of the slot's first declared volume descriptor, and at '/data' when the
\* slot declares none or the first path is empty; it is created for the new
\* service in the target environment and project.
C26_MountPath ==
    Issued("createVolume") =>
        LET slot == ProvisionedSlot
            call == TheCall("createVolume")
            path == IF /\ IsSome(slot.volumeMounts)
                       /\ Len(slot.volumeMounts[1]) > 0
                       /\ slot.volumeMounts[1][1] # ""
                    THEN slot.volumeMounts[1][1]
                    ELSE "/data"
        IN  /\ call.mountPath = path
            /\ call.serviceId = NewServiceId
            /\ call.environmentId = req.environmentId
            /\ call.projectId = req.projectId
            /\ Acked("createVolume") =>
                   remote.volumes = { [ projectId |-> req.projectId,
                                        environmentId |-> req.environmentId,
                                        serviceId |-> NewServiceId,
                                        mountPath |-> path ] }

\* a volume was created at the first declared path
C26_Witness ==
    /\ Acked("createVolume")
    /\ TheCall("createVolume").mountPath = "/var/lib/pg"

\* a volume was created at '/data' for a first descriptor with an empty path
C26_WitnessDefault ==
    /\ Acked("createVolume")
    /\ IsSome(ProvisionedSlot.volumeMounts)
    /\ Len(ProvisionedSlot.volumeMounts[1]) > 0
    /\ TheCall("createVolume").mountPath = "/data"

\* C27: the service is created from the slot's image with the caller's
\* name when one is given, else the slot's declared name, else the
\* template's name.
C27_ServiceName ==
    Issued("createService") =>
        LET found == Requested[1]
            slot == found.services[1]
            call == TheCall("createService")
        IN  /\ call.image = slot.image[1]
            /\ call.projectId = req.projectId
            /\ call.name = IF IsSome(req.name) /\ req.name[1] # "" THEN req.name[1]
                           ELSE IF IsSome(slot.name) /\ slot.name[1] # ""
                           THEN slot.name[1]
                           ELSE found.name
            /\ Acked("createService") =>
                   remote.services = { [ id |-> NewServiceId,
                                         projectId |-> req.projectId,
                                         name |-> call.name,
                                         image |-> slot.image[1] ] }

\* a service was created under the caller's name although the slot has one
C27_Witness ==
    /\ Acked("createService")
    /\ IsSome(ProvisionedSlot.name)
    /\ TheCall("createService").name = "mydb"

\* a service was created under the template's name
C27_WitnessTemplateName ==
    /\ Acked("createService")
    /\ req.name = Some("")
    /\ TheCall("createService").name = "PostgreSQL"

\* the positions of the catalog that hold the requested id
WithRequestedId == { i \in 1..Len(catalog) : catalog[i].id = req.id }

\* the requested id is in the catalog, but only under categories that are
\* neither storage nor database ones, or under none
OnlyUnderOtherCategory ==
    /\ WithRequestedId # {}
    /\ \A i \in WithRequestedId :
           \/ ~ IsSome(catalog[i].category)
           \/ catalog[i].category[1] \notin MatchingCategories

\* the run was rejected as an unsupported database, with nothing changed
RejectedAsUnsupported ==
    /\ pc = "failed"
    /\ result.error = << << "Unsupported database" >> >>
    /\ TraceOps = << "listTemplates" >>
    /\ remote = EmptyRemote

\* C28: an identifier that is in the fetched catalog under a category that
\* contains neither 'storage' nor 'database', or under no category, is
\* rejected as 'Unsupported database' before any remote mutation, exactly
\* as an identifier that is not in the catalog at all.
C28_OtherCategoryUnsupported ==
    /\ remote.services = {} => \A op \in MutatingOps : ~ Acked(op)
    /\ (OnlyUnderOtherCategory \/ WithRequestedId = {}) =>
           /\ TraceOps \in { << >>, << "listTemplates" >> }
           /\ remote = EmptyRemote
           /\ pc # "done"
           /\ Acked("listTemplates") /\ pc # "listTemplates" => RejectedAsUnsupported
    /\ RejectedAsUnsupported => OnlyUnderOtherCategory \/ WithRequestedId = {}

\* a template listed under 'Queues' was asked for and rejected
C28_Witness ==
    /\ OnlyUnderOtherCategory
    /\ \E i \in WithRequestedId : catalog[i].category = Some(CatQueues)
    /\ RejectedAsUnsupported

\* a template without category was asked for and rejected
C28_WitnessNoCategory ==
    /\ OnlyUnderOtherCategory
    /\ \E i \in WithRequestedId : ~ IsSome(catalog[i].category)
    /\ RejectedAsUnsupported

\* an identifier the catalog does not hold was rejected the same way
C28_WitnessUnknownId ==
    /\ WithRequestedId = {}
    /\ RejectedAsUnsupported

-----------------------------------------------------------------------------
(* copyVariables onto its own source (SpecCopy) *)

\* a copy whose target environment is its source environment has started
CopyOntoItself ==
    /\ creq.targetEnvironmentId = creq.sourceEnvironmentId
    /\ pc # "idle"

C29_WitnessNoOverwrite ==
    /\ CopyOntoItself
    /\ ~ creq.overwrite
    /\ pc = "done"
    /\ DOMAIN SourceBefore # {}
    /\ Len(trace) = 2

-----------------------------------------------------------------------------
(* DomainService.createServiceDomain *)

DomainNames == { "db.example.com", "api.example.com" }

\* the domains other services hold when the operation starts
TakenDomains ==
    { { [ domain |-> n, serviceId |-> "other", environmentId |-> "env1",
          targetPort |-> Absent ] : n \in taken } : taken \in SUBSET DomainNames }

DomainRequests ==
    { [ NoOperation EXCEPT !.op = "createServiceDomain",
                           !.serviceId = Some("svc-1"), !.environmentId = "env1",
                           !.domain = d, !.targetPort = t ] :
          d \in { Absent, Some("") } \cup { Some(n) : n \in DomainNames },
          t \in { Absent, Some(8080) } }

\* serviceDomainCreate(input)
DomainCreateCall ==
    [ NoArgs EXCEPT !.op = "serviceDomainCreate",
                    !.serviceId = opreq.serviceId[1],
                    !.environmentId = opreq.environmentId,
                    !.domain = opreq.domain,
                    !.targetPort = opreq.targetPort ]

\* createServiceDomain up to its first await: the availability check when a
\* domain is given, else the create call
DomainStart ==
    /\ pc = "idle"
    /\ opreq.op = "createServiceDomain"
    /\ IF Truthy(opreq.domain)
       THEN OpIssue([ NoArgs EXCEPT !.op = "serviceDomainAvailable",
                                    !.domain = opreq.domain ],
                    "domain:available")
       ELSE OpIssue(DomainCreateCall, "domain:create")
    /\ UNCHANGED ListFrame

\* a create that is issued whatever the availability check said
DomainCreate_IgnoresAvailability ==
    /\ OpResumed("domain:available")
    /\ IF resp.status = "throw"
       THEN OpThrow(Wrap("Error creating domain",
                         ClientError("serviceDomainAvailable")))
       ELSE OpIssue(DomainCreateCall, "domain:create")
    /\ UNCHANGED ListFrame

\* the availability is answered: an unavailable domain is refused, an
\* available one is created
DomainCreate ==
    /\ OpResumed("domain:available")
    /\ IF resp.status = "throw"
       THEN OpThrow(Wrap("Error creating domain",
                         ClientError("serviceDomainAvailable")))
       ELSE IF ~ IsSome(resp.data)
       THEN OpThrow(Wrap("Error creating domain",
                         [ user |-> FALSE,
                           chain |-> << << "TypeError: reading 'available'" >> >> ]))
       ELSE IF ~ resp.data[1].available
       THEN OpThrow(UserError(<< "Domain unavailable: ", resp.data[1].message >>))
       ELSE OpIssue(DomainCreateCall, "domain:create")
    /\ UNCHANGED ListFrame

\* the create call is answered: return buildOutput(domain), or the error
\* wrapped
DomainReturn ==
    /\ OpResumed("domain:create")
    /\ IF resp.status = "throw"
       THEN OpThrow(Wrap("Error creating domain", ClientError("serviceDomainCreate")))
       ELSE OpReturn(resp.data)
    /\ UNCHANGED ListFrame

InitDomain ==
    /\ InitNoServer
    /\ race = << >>
    /\ writes = << >>
    /\ matches = << >>
    /\ buildLogs = Absent
    /\ pc = "idle"
    /\ pending = {}
    /\ resp = NoResp
    /\ trace = << >>
    /\ acked = << >>
    /\ result = NoResult
    /\ remote \in { [ EmptyRemote EXCEPT !.domains = t ] : t \in TakenDomains }
    /\ catalog = << >>
    /\ opreq \in DomainRequests
    /\ req = NoRequest
    /\ template = Absent
    /\ service = ""
    /\ creq = NoCopy
    /\ sourceVars = << >>
    /\ varsToSet = << >>
    /\ before = {}

NextDomain ==
    \/ DomainStart
    \/ DomainCreate
    \/ DomainReturn
    \/ Respond

SpecDomain == InitDomain /\ [][NextDomain]_vars

\* the domains of the service the operation creates a domain for
OwnDomains == { d \in remote.domains : d.serviceId = opreq.serviceId[1] }

\* the requested name is held by another service
Taken == \E d \in remote.domains : d.serviceId = "other" /\ d.domain = opreq.domain[1]

\* C30: with a requested domain name the availability check is issued
\* before the create call, which is issued only if the check reported the
\* domain available; an unavailable domain fails with 'Domain unavailable'
\* and no domain is created. With no name requested the create call is
\* issued without any availability check.
C30_CheckBeforeCreate ==
    /\ OwnDomains # {} <=> Acked("serviceDomainCreate")
    /\ Truthy(opreq.domain) =>
           /\ IsPrefix(TraceOps, << "serviceDomainAvailable", "serviceDomainCreate" >>)
           /\ Issued("serviceDomainCreate") =>
                  Acked("serviceDomainAvailable") /\ ~ Taken
           /\ Taken /\ Acked("serviceDomainAvailable") /\ pc # "domain:available" =>
                  /\ pc = "failed"
                  /\ result.error = << << "Domain unavailable: ", "Domain is taken" >> >>
                  /\ TraceOps = << "serviceDomainAvailable" >>
                  /\ OwnDomains = {}
    /\ ~ Truthy(opreq.domain) /\ pc # "idle" =>
           /\ TraceOps = << "serviceDomainCreate" >>
           /\ trace[1] = DomainCreateCall
    /\ pc = "done" => Issued("serviceDomainCreate") /\ pending = {}

\* a taken domain was asked for and refused
C30_Witness ==
    /\ Truthy(opreq.domain)
    /\ Taken
    /\ pc = "failed"
    /\ Acked("serviceDomainAvailable")

\* a free domain was asked for, checked and created
C30_WitnessCreated ==
    /\ Truthy(opreq.domain)
    /\ pc = "done"
    /\ acked = << "serviceDomainAvailable", "serviceDomainCreate" >>
    /\ \E d \in OwnDomains : d.domain = opreq.domain[1]

\* a domain was created without a name and without a check
C30_WitnessNoName ==
    /\ ~ IsSome(opreq.domain)
    /\ pc = "done"
    /\ acked = << "serviceDomainCreate" >>

====
